---- MODULE Spec2Model ----
(***************************************************************************)
(* A model of WTMLIB (src/src/wtmlib.c).                                   *)
(*                                                                         *)
(* Spec     : the CAS-ordered TSC prober.  The supervisor                  *)
(*            (wtmlib_CollectCASOrderedTSCProbes and the functions it      *)
(*            calls) runs concurrently with the probe threads              *)
(*            (wtmlib_TSCProbeThread), every atomic access of a thread     *)
(*            being one step.                                              *)
(* SpecAff  : the calling thread through the three public functions,       *)
(*            wtmlib_EvalTSCReliabilityCPUSW, wtmlib_EvalTSCReliabilityCOP *)
(*            and wtmlib_GetTSCToNsecConversionParams: its CPU affinity,   *)
(*            the return code, the results.                                *)
(* SpecCarousel, SpecProbes, SpecAna :                                     *)
(*            the analysis of collected samples, of a CPU carousel, of     *)
(*            CAS-ordered probes, of either.                               *)
(* SpecConv : wtmlib_CalcTSCToNsecConversionParams and WTMLIB_TSC_TO_NSEC  *)
(*            on 64-bit words and on a scaled word.                        *)
(***************************************************************************)
EXTENDS Integers, Sequences, FiniteSets, TLC

(***************************************************************************)
(* Bounds of the model.                                                    *)
(***************************************************************************)
\* the largest num_threads handed to wtmlib_CollectCASOrderedTSCProbes
MaxThreads == 3
\* the largest probes_count (the library is configured with 1000)
MaxProbes == 2
\* the largest number of sequence numbers, num_threads * probes_count
MaxSeqNums == 4
\* INT_MAX of the model's "int" (the program's int has 32 bits)
INT_MAX == 4
\* WTMLIB_TSC_PROBE_WAIT_TIME, in check periods (configured: 300)
WTMLIB_TSC_PROBE_WAIT_TIME == 3
\* WTMLIB_TSC_PROBE_WAIT_AFTER_CANCEL, in check periods (configured: 10)
WTMLIB_TSC_PROBE_WAIT_AFTER_CANCEL == 2
\* the number of configured CPUs, get_nprocs_conf()
MaxCpus == 3
\* WTMLIB_CALC_TSC_RANGE_ROUND_COUNT, the rounds of a carousel of the
\* enclosing range (configured: 100)
WTMLIB_CALC_TSC_RANGE_ROUND_COUNT == 1
\* WTMLIB_EVAL_TSC_MONOTCTY_ROUND_COUNT, the rounds of the carousel of the
\* monotonicity evaluation (configured: 100)
WTMLIB_EVAL_TSC_MONOTCTY_ROUND_COUNT == 1
\* INT64_MAX of the model's int64_t; its uint64_t has the values
\* 0 .. 2 * INT64_MAX + 1 (the program's have 64 bits)
INT64_MAX == 1
\* the largest num_rounds of an analysed CPU carousel (configured: 100)
MaxRounds == 2
\* the largest num_probes of an analysed sequence of CAS-ordered probes
\* (configured: 1000)
MaxNumProbes == 3
\* the largest number of CPUs whose CAS-ordered probes are analysed
MaxProbedCpus == 2
\* WTMLIB_TSC_DELTA_RANGE_COUNT_THRESHOLD (configured: 10)
WTMLIB_TSC_DELTA_RANGE_COUNT_THRESHOLD == 2
\* WTMLIB_FULL_LOOP_COUNT_THRESHOLD (configured: 10)
WTMLIB_FULL_LOOP_COUNT_THRESHOLD == 2
\* the width in bits of the scaled word the conversion of ticks to
\* nanoseconds is also run on, and the nanoseconds of its second
ScaledWordBits == 8
ScaledNsecsPerSec == 4

(***************************************************************************)
(* Program constants.                                                      *)
(***************************************************************************)
WTMLIB_TSC_PROBE_COMPLETION_CHECK_PERIOD == 1
WTMLIB_TIME_CONVERSION_MODULUS == 10
WTMLIB_RET_GENERIC_ERR == 1
WTMLIB_RET_TSC_INCONSISTENCY == 2
WTMLIB_RET_POOR_STAT == 3
\* the exit value of a cancelled thread: (void*)-1 on Linux
PTHREAD_CANCELED == -1

INT_MIN == (0 - INT_MAX) - 1
ThreadIds == 0 .. (MaxThreads - 1)
Cpus == 0 .. (MaxCpus - 1)

INT64_MIN == (0 - INT64_MAX) - 1
UINT64_MAX == 2 * INT64_MAX + 1
Int64 == INT64_MIN .. INT64_MAX
Uint64 == 0 .. UINT64_MAX

VARIABLES
    \* ---- inputs of wtmlib_CollectCASOrderedTSCProbes
    num_threads, probes_count,
    \* ---- objects shared by the probe threads
    seq_counter, ready_counter, tsc_probes,
    \* the hardware time-stamp counter, one clock common to all CPUs: it
    \* ticks once with every compare-and-swap that wins, so that the value
    \* read tells between which two updates of the counter the read was made
    tsc,
    \* ---- per probe thread: position, locals, exit value, pending cancel
    pc, seq_num, tsc_val, thread_ret, cancel_pending,
    \* ---- the supervisor: position and locals
    sup_pc, ci, num_started, ind, time_passed, time_to_wait,
    is_cancelled, is_timeout, thread_failed, detach_attempted,
    wait_ret, ret, probes_analysed,
    \* ---- history: what the supervisor did to each thread, the increments
    \* of the ready counter by each thread, the expiry of the run budget
    hist, ready_incs, run_budget_expired,
    \* ---- the calling thread of wtmlib_EvalTSCReliabilityCPUSW or
    \* wtmlib_GetTSCToNsecConversionParams: the function called, its position,
    \* the thread's affinity mask, the captured state, the locals
    fn, apc, affinity, ps_state, cpu_id, cpu_sets, car_caller, car_round, car_ind,
    aret, out_written,
    \* ---- history: the mask at entry, whether the function changed the mask,
    \* whether wtmlib_RestoreInitialProcState ran and which step of it failed
    mask_at_entry, aff_changed, restore_called, restore_failed,
    \* ---- the results of the calling thread: the bounds of the enclosing
    \* range, the locals tsc_range_length and is_monotonic of the public
    \* function, and the memory behind its two output pointers (<<>> while
    \* nothing was written to it, <<v>> once v was written)
    l_bound, u_bound, tsc_range_length, is_monotonic,
    tsc_range_length_ret, is_monotonic_ret,
    \* ---- the analysis of collected samples: the function applied and its
    \* position, the samples of a CPU carousel, the CAS-ordered probes, the
    \* result
    ana_fn, ana_pc, num_rounds, tsc_vals, num_avail_cpus, num_probes, probes,
    ana_res,
    \* ---- history: the pins and the samples of the running CPU carousel, in
    \* the order they were made
    car_log,
    \* ---- the conversion of TSC ticks to nanoseconds: the width of uint64_t
    \* in bits, the measured rate, the position, the result and the
    \* parameters of wtmlib_CalcTSCToNsecConversionParams, the ticks given to
    \* WTMLIB_TSC_TO_NSEC and its value
    word_bits, tsc_per_sec, conv_pc, conv_ret, conv_params, tsc_ticks, nsecs

thrVars == <<seq_counter, ready_counter, tsc_probes, tsc, pc, seq_num, tsc_val,
             thread_ret, cancel_pending, ready_incs>>
supVars == <<sup_pc, ci, num_started, ind, time_passed, time_to_wait,
             is_cancelled, is_timeout, thread_failed, detach_attempted,
             wait_ret, ret, probes_analysed, run_budget_expired>>
inVars == <<num_threads, probes_count>>
casVars == <<inVars, thrVars, supVars, hist>>

affVars == <<fn, apc, affinity, ps_state, cpu_id, cpu_sets, car_caller, car_round,
             car_ind, aret, out_written, mask_at_entry, aff_changed, restore_called,
             restore_failed, car_log>>

resVars == <<l_bound, u_bound, tsc_range_length, is_monotonic,
             tsc_range_length_ret, is_monotonic_ret>>

anaVars == <<ana_fn, ana_pc, num_rounds, tsc_vals, num_avail_cpus, num_probes,
             probes, ana_res>>

convVars == <<word_bits, tsc_per_sec, conv_pc, conv_ret, conv_params, tsc_ticks,
              nsecs>>

\* everything but the CAS-ordered prober
restVars == <<affVars, resVars, anaVars, convVars>>

vars == <<casVars, affVars, resVars, anaVars, convVars>>

(***************************************************************************)
(* wtmlib_TSCProbeThread                                                   *)
(***************************************************************************)
\* A terminated thread: what pthread_tryjoin_np() joins.
Terminated(t) == pc[t] = "done"

\* pthread_setaffinity_np() of the thread: success, or a failure that ends
\* the thread with WTMLIB_RET_GENERIC_ERR.
ThreadPinOk(t) ==
    /\ pc[t] = "pin"
    /\ pc' = [pc EXCEPT ![t] = "inc"]
    /\ UNCHANGED <<seq_counter, ready_counter, tsc_probes, tsc, seq_num, tsc_val,
                   thread_ret, cancel_pending, ready_incs>>
    /\ UNCHANGED <<inVars, supVars, hist, restVars>>

ThreadPinFail(t) ==
    /\ pc[t] = "pin"
    /\ pc' = [pc EXCEPT ![t] = "done"]
    /\ thread_ret' = [thread_ret EXCEPT ![t] = WTMLIB_RET_GENERIC_ERR]
    /\ UNCHANGED <<seq_counter, ready_counter, tsc_probes, tsc, seq_num, tsc_val,
                   cancel_pending, ready_incs>>
    /\ UNCHANGED <<inVars, supVars, hist, restVars>>

\* __atomic_add_fetch( arg->ready_counter, 1, __ATOMIC_ACQ_REL)
ThreadReady(t) ==
    /\ pc[t] = "inc"
    /\ ready_counter' = ready_counter + 1
    /\ ready_incs' = [ready_incs EXCEPT ![t] = @ + 1]
    /\ pc' = [pc EXCEPT ![t] = "spin"]
    /\ UNCHANGED <<seq_counter, tsc_probes, tsc, seq_num, tsc_val, thread_ret,
                   cancel_pending>>
    /\ UNCHANGED <<inVars, supVars, hist, restVars>>

\* The spin loop is left when the load of the ready counter is not smaller
\* than num_threads.
SpinExitNever(t) == FALSE

SpinExitWeak(t) == ready_counter >= 1

SpinExit(t) == ~(ready_counter < num_threads)

\* One load of the ready counter that ends the spin loop; a load that does
\* not changes nothing.  The probe loop is entered with i = 0.
ThreadSpin(t) ==
    /\ pc[t] = "spin"
    /\ SpinExit(t)
    /\ pc' = [pc EXCEPT ![t] = IF 0 < probes_count THEN "load" ELSE "done"]
    /\ thread_ret' = [thread_ret EXCEPT ![t] = IF 0 < probes_count THEN @ ELSE 0]
    /\ UNCHANGED <<seq_counter, ready_counter, tsc_probes, tsc, seq_num, tsc_val,
                   cancel_pending, ready_incs>>
    /\ UNCHANGED <<inVars, supVars, hist, restVars>>

\* __atomic_load( seq_counter, &seq_num, __ATOMIC_ACQUIRE)
ThreadLoad(t) ==
    /\ pc[t] = "load"
    /\ seq_num' = [seq_num EXCEPT ![t] = seq_counter]
    /\ pc' = [pc EXCEPT ![t] = "tsc"]
    /\ UNCHANGED <<seq_counter, ready_counter, tsc_probes, tsc, tsc_val, thread_ret,
                   cancel_pending, ready_incs>>
    /\ UNCHANGED <<inVars, supVars, hist, restVars>>

\* __sync_synchronize(); tsc_val = WTMLIB_GET_TSC().
ThreadGetTSC(t) ==
    /\ pc[t] = "tsc"
    /\ tsc_val' = [tsc_val EXCEPT ![t] = tsc]
    /\ pc' = [pc EXCEPT ![t] = "cas"]
    /\ UNCHANGED <<seq_counter, ready_counter, tsc_probes, tsc, seq_num, thread_ret,
                   cancel_pending, ready_incs>>
    /\ UNCHANGED <<inVars, supVars, hist, restVars>>

\* __atomic_compare_exchange_n succeeds when the counter still holds seq_num.
CASSucceedsBlind(t) == TRUE

CASSucceeds(t) == seq_counter = seq_num[t]

\* Where the do-while loop continues after a lost compare-and-swap: at the
\* load of the counter, so that the TSC is read again.
RetryPcNoReread == "cas"

RetryPc == "load"

\* The compare-and-swap won: the counter moves from seq_num to seq_num + 1,
\* the probe is stored, and the for loop goes on or the thread returns 0.
ThreadCASWin(t) ==
    /\ pc[t] = "cas"
    /\ CASSucceeds(t)
    /\ seq_counter' = seq_num[t] + 1
    /\ tsc' = tsc + 1
    /\ tsc_probes' = [tsc_probes EXCEPT
            ![t] = Append(@, [seq_num |-> seq_num[t], tsc_val |-> tsc_val[t]])]
    /\ IF Len(tsc_probes[t]) + 1 < probes_count
          THEN /\ pc' = [pc EXCEPT ![t] = "load"]
               /\ UNCHANGED thread_ret
          ELSE /\ pc' = [pc EXCEPT ![t] = "done"]
               /\ thread_ret' = [thread_ret EXCEPT ![t] = 0]
    /\ UNCHANGED <<ready_counter, seq_num, tsc_val, cancel_pending, ready_incs>>
    /\ UNCHANGED <<inVars, supVars, hist, restVars>>

\* The compare-and-swap lost: seq_num receives the counter's value and the
\* do-while loop is repeated.
ThreadCASLose(t) ==
    /\ pc[t] = "cas"
    /\ ~CASSucceeds(t)
    /\ seq_num' = [seq_num EXCEPT ![t] = seq_counter]
    /\ pc' = [pc EXCEPT ![t] = RetryPc]
    /\ UNCHANGED <<seq_counter, ready_counter, tsc_probes, tsc, tsc_val, thread_ret,
                   cancel_pending, ready_incs>>
    /\ UNCHANGED <<inVars, supVars, hist, restVars>>

\* Asynchronous cancellation: a thread with a pending cancel request ends, at
\* any instruction, with PTHREAD_CANCELED.
ThreadCancelled(t) ==
    /\ cancel_pending[t]
    /\ pc[t] \notin {"none", "done"}
    /\ pc' = [pc EXCEPT ![t] = "done"]
    /\ thread_ret' = [thread_ret EXCEPT ![t] = PTHREAD_CANCELED]
    /\ UNCHANGED <<seq_counter, ready_counter, tsc_probes, tsc, seq_num, tsc_val,
                   cancel_pending, ready_incs>>
    /\ UNCHANGED <<inVars, supVars, hist, restVars>>

ThreadStep(t) ==
    \/ ThreadPinOk(t)
    \/ ThreadPinFail(t)
    \/ ThreadReady(t)
    \/ ThreadSpin(t)
    \/ ThreadLoad(t)
    \/ ThreadGetTSC(t)
    \/ ThreadCASWin(t)
    \/ ThreadCASLose(t)
    \/ ThreadCancelled(t)

(***************************************************************************)
(* wtmlib_CollectCASOrderedTSCProbes, wtmlib_WaitForTSCProbeThreads,       *)
(* wtmlib_WaitWithTimeout                                                  *)
(***************************************************************************)
\* The events of a thread's history.
EvCreate == "create"
EvCancel == "cancel"
EvJoin == "join"
EvDetachOnJoinError == "detach_on_join_error"
EvDetach == "detach"

Log(h, threads, ev) == [t \in ThreadIds |-> IF t \in threads THEN Append(h[t], ev) ELSE h[t]]

\* pthread_cancel(): the request stays pending until the thread acts on it.
CancelRequest(cp, threads) == [t \in ThreadIds |-> cp[t] \/ t \in threads]

\* The entry of wtmlib_WaitForTSCProbeThreads( thread_descs, nst,
\* nst != num_threads, ...) up to the first call of wtmlib_WaitWithTimeout.
EnterWaitFor(nst) ==
    /\ is_cancelled' = (nst # num_threads)
    /\ time_to_wait' = IF nst # num_threads THEN WTMLIB_TSC_PROBE_WAIT_AFTER_CANCEL
                                            ELSE WTMLIB_TSC_PROBE_WAIT_TIME
    /\ ind' = 0
    /\ time_passed' = 0
    /\ sup_pc' = "wait1"

\* wtmlib_AllocMemForTSCProbeThreads failed: no thread is created and the
\* function returns its error.  (The check of num_threads * probes_count
\* against UINT64_MAX before it never fails for the model's values.)
CollectAllocFail ==
    /\ sup_pc = "create"
    /\ ci = 0
    /\ ret' = WTMLIB_RET_GENERIC_ERR
    /\ sup_pc' = "caller"
    /\ UNCHANGED <<restVars, inVars, thrVars, hist, ci, num_started, ind, time_passed,
                   time_to_wait, is_cancelled, is_timeout, thread_failed,
                   detach_attempted, wait_ret, probes_analysed, run_budget_expired>>

\* pthread_create() succeeded for thread ci.
CreateOk ==
    /\ sup_pc = "create"
    /\ ci < num_threads
    /\ pc' = [pc EXCEPT ![ci] = "pin"]
    /\ hist' = Log(hist, {ci}, EvCreate)
    /\ ci' = ci + 1
    /\ IF ci + 1 < num_threads
          THEN UNCHANGED <<sup_pc, ind, time_passed, time_to_wait, is_cancelled>>
          ELSE EnterWaitFor(num_started)
    /\ UNCHANGED <<restVars, inVars, seq_counter, ready_counter, tsc_probes, tsc, seq_num,
                   tsc_val, thread_ret, cancel_pending, ready_incs, num_started,
                   is_timeout, thread_failed, detach_attempted, wait_ret, ret,
                   probes_analysed, run_budget_expired>>

\* pthread_create() failed for thread ci: num_started = i; break.
CreateFail ==
    /\ sup_pc = "create"
    /\ ci < num_threads
    /\ num_started' = ci
    /\ sup_pc' = "cancel_loop"
    /\ UNCHANGED <<restVars, inVars, thrVars, hist, ci, ind, time_passed, time_to_wait,
                   is_cancelled, is_timeout, thread_failed, detach_attempted,
                   wait_ret, ret, probes_analysed, run_budget_expired>>

\* The thread that an iteration of the cancel loop cancels: thread_descs[i],
\* the loop's i staying 0.
CancelLoopTarget(n) == 0

\* for ( int i = 0; i < num_started; num_started++ ): one iteration.  The
\* increment of num_started = INT_MAX overflows a signed int, which is
\* undefined: the value wraps to INT_MIN and the loop ends, or the loop's
\* test is compiled away and the loop never ends.
CancelLoopStep ==
    /\ sup_pc = "cancel_loop"
    /\ 0 < num_started
    /\ cancel_pending' = CancelRequest(cancel_pending, {CancelLoopTarget(num_started)})
    /\ hist' = Log(hist, {CancelLoopTarget(num_started)}, EvCancel)
    /\ \/ /\ num_started < INT_MAX
          /\ num_started' = num_started + 1
          /\ UNCHANGED sup_pc
       \/ /\ num_started = INT_MAX
          /\ num_started' = INT_MIN
          /\ UNCHANGED sup_pc
       \/ /\ num_started = INT_MAX
          /\ num_started' = INT_MAX
          /\ sup_pc' = "cancel_loop_forever"
    /\ UNCHANGED <<restVars, inVars, seq_counter, ready_counter, tsc_probes, tsc, pc, seq_num,
                   tsc_val, thread_ret, ready_incs, ci, ind, time_passed,
                   time_to_wait, is_cancelled, is_timeout, thread_failed,
                   detach_attempted, wait_ret, ret, probes_analysed,
                   run_budget_expired>>

\* The cancel loop's test fails: wtmlib_WaitForTSCProbeThreads is called.
CancelLoopExit ==
    /\ sup_pc = "cancel_loop"
    /\ ~(0 < num_started)
    /\ EnterWaitFor(num_started)
    /\ UNCHANGED <<restVars, inVars, thrVars, hist, ci, num_started, is_timeout, thread_failed,
                   detach_attempted, wait_ret, ret, probes_analysed,
                   run_budget_expired>>

\* wtmlib_WaitWithTimeout: the for loop is inside its do-while loop.
PollingPastBudget ==
    /\ sup_pc \in {"wait1", "wait2"}
    /\ ind < num_started
    /\ time_passed <= time_to_wait

Polling ==
    /\ sup_pc \in {"wait1", "wait2"}
    /\ ind < num_started
    /\ time_passed < time_to_wait

\* pthread_tryjoin_np() returned 0.  Only the first call of
\* wtmlib_WaitWithTimeout is given a counter of failed threads.
JoinOk ==
    /\ Polling
    /\ Terminated(ind)
    /\ hist' = Log(hist, {ind}, EvJoin)
    /\ thread_failed' = IF sup_pc = "wait1" /\ thread_ret[ind] # 0
                           THEN thread_failed + 1 ELSE thread_failed
    /\ ind' = ind + 1
    /\ UNCHANGED <<restVars, inVars, thrVars, sup_pc, ci, num_started, time_passed,
                   time_to_wait, is_cancelled, is_timeout, detach_attempted,
                   wait_ret, ret, probes_analysed, run_budget_expired>>

\* pthread_tryjoin_np() returned EBUSY: sleep for one check period.
JoinBusy ==
    /\ Polling
    /\ ~Terminated(ind)
    /\ time_passed' = time_passed + WTMLIB_TSC_PROBE_COMPLETION_CHECK_PERIOD
    /\ UNCHANGED <<restVars, inVars, thrVars, hist, sup_pc, ci, num_started, ind,
                   time_to_wait, is_cancelled, is_timeout, thread_failed,
                   detach_attempted, wait_ret, ret, probes_analysed,
                   run_budget_expired>>

\* pthread_tryjoin_np() returned another error: the thread is detached.
JoinError ==
    /\ Polling
    /\ hist' = Log(hist, {ind}, EvDetachOnJoinError)
    /\ detach_attempted' = detach_attempted + 1
    /\ ind' = ind + 1
    /\ UNCHANGED <<restVars, inVars, thrVars, sup_pc, ci, num_started, time_passed,
                   time_to_wait, is_cancelled, is_timeout, thread_failed,
                   wait_ret, ret, probes_analysed, run_budget_expired>>

\* Whether the first wait left threads to cancel:
\* if ( ind < num_started && !is_cancelled ).
NeedCancelNever(i, n, cancelled) == FALSE

NeedCancel(i, n, cancelled) == i < n /\ ~cancelled

\* The threads cancelled then: for ( int i = ind; i < num_started; i++ ).
ToCancelButFirst(i, n) == (i + 1) .. (n - 1)

ToCancel(i, n) == i .. (n - 1)

\* The first wtmlib_WaitWithTimeout returned.  With threads left and no
\* cancel before the call: cancel them and wait again, for
\* WTMLIB_TSC_PROBE_WAIT_AFTER_CANCEL.
WaitEnd1 ==
    /\ sup_pc = "wait1"
    /\ ~Polling
    /\ run_budget_expired' = (~is_cancelled /\ time_passed >= time_to_wait)
    /\ IF NeedCancel(ind, num_started, is_cancelled)
          THEN /\ is_timeout' = TRUE
               /\ cancel_pending' = CancelRequest(cancel_pending,
                                                  ToCancel(ind, num_started))
               /\ hist' = Log(hist, ToCancel(ind, num_started), EvCancel)
               /\ time_passed' = 0
               /\ time_to_wait' = WTMLIB_TSC_PROBE_WAIT_AFTER_CANCEL
               /\ sup_pc' = "wait2"
          ELSE /\ sup_pc' = "detach"
               /\ UNCHANGED <<is_timeout, cancel_pending, hist, time_passed,
                              time_to_wait>>
    /\ UNCHANGED <<restVars, inVars, seq_counter, ready_counter, tsc_probes, tsc, pc, seq_num,
                   tsc_val, thread_ret, ready_incs, ci, num_started, ind,
                   is_cancelled, thread_failed, detach_attempted, wait_ret, ret,
                   probes_analysed>>

\* The second wtmlib_WaitWithTimeout returned.
WaitEnd2 ==
    /\ sup_pc = "wait2"
    /\ ~Polling
    /\ sup_pc' = "detach"
    /\ UNCHANGED <<restVars, inVars, thrVars, hist, ci, num_started, ind, time_passed,
                   time_to_wait, is_cancelled, is_timeout, thread_failed,
                   detach_attempted, wait_ret, ret, probes_analysed,
                   run_budget_expired>>

\* The value wtmlib_WaitForTSCProbeThreads returns.
WaitForRetIgnoringFailed(cancelled, timeout, detached, failed) ==
    IF cancelled
       THEN IF detached = 0 THEN 0 ELSE WTMLIB_RET_GENERIC_ERR
       ELSE IF ~timeout /\ detached = 0 THEN 0 ELSE WTMLIB_RET_GENERIC_ERR

WaitForRetCountingFailed(cancelled, timeout, detached, failed) ==
    IF ~timeout /\ detached = 0 /\ failed = 0 THEN 0 ELSE WTMLIB_RET_GENERIC_ERR

WaitForRet(cancelled, timeout, detached, failed) ==
    IF cancelled
       THEN IF detached = 0 THEN 0 ELSE WTMLIB_RET_GENERIC_ERR
       ELSE IF ~timeout /\ detached = 0 /\ failed = 0
               THEN 0 ELSE WTMLIB_RET_GENERIC_ERR

\* The threads detached at the end: for ( int i = ind; i < num_started; i++ ).
ToDetachButFirst(i, n) == (i + 1) .. (n - 1)

ToDetach(i, n) == i .. (n - 1)

\* The end of wtmlib_WaitForTSCProbeThreads: the threads still not joined are
\* detached, and the function returns.
DetachRest ==
    /\ sup_pc = "detach"
    /\ LET left == IF ind < num_started THEN ToDetach(ind, num_started) ELSE {}
           tmo == is_timeout \/ ind < num_started
           det == detach_attempted + Cardinality(left)
       IN /\ hist' = Log(hist, left, EvDetach)
          /\ is_timeout' = tmo
          /\ detach_attempted' = det
          /\ wait_ret' = WaitForRet(is_cancelled, tmo, det, thread_failed)
    /\ sup_pc' = "collect_out"
    /\ UNCHANGED <<restVars, inVars, thrVars, ci, num_started, ind, time_passed, time_to_wait,
                   is_cancelled, thread_failed, ret, probes_analysed,
                   run_budget_expired>>

\* The rest of wtmlib_CollectCASOrderedTSCProbes: its return value.
CollectRet(nst, wret) == IF nst # num_threads THEN WTMLIB_RET_GENERIC_ERR ELSE wret

CollectOut ==
    /\ sup_pc = "collect_out"
    /\ ret' = CollectRet(num_started, wait_ret)
    /\ sup_pc' = "caller"
    /\ UNCHANGED <<restVars, inVars, thrVars, hist, ci, num_started, ind, time_passed,
                   time_to_wait, is_cancelled, is_timeout, thread_failed,
                   detach_attempted, wait_ret, probes_analysed, run_budget_expired>>

\* The callers, wtmlib_CalcTSCEnclosingRangeCOP and
\* wtmlib_EvalTSCMonotonicityCOP: the probes are analysed if ret is 0.
CallerAnalyses(r) == r = 0

CallerStep ==
    /\ sup_pc = "caller"
    /\ probes_analysed' = CallerAnalyses(ret)
    /\ sup_pc' = "done"
    /\ UNCHANGED <<restVars, inVars, thrVars, hist, ci, num_started, ind, time_passed,
                   time_to_wait, is_cancelled, is_timeout, thread_failed,
                   detach_attempted, wait_ret, ret, run_budget_expired>>

SupStep ==
    \/ CollectAllocFail
    \/ CreateOk
    \/ CreateFail
    \/ CancelLoopStep
    \/ CancelLoopExit
    \/ JoinOk
    \/ JoinBusy
    \/ JoinError
    \/ WaitEnd1
    \/ WaitEnd2
    \/ DetachRest
    \/ CollectOut
    \/ CallerStep

(***************************************************************************)
(* The three public functions: the calling thread.  The TSC values are not *)
(* modelled here: an analysis of them ends as the hardware has it, with    *)
(* any of the results the analysis can give.  The output pointers are not  *)
(* null.                                                                   *)
(***************************************************************************)
EvalTSCReliabilityCPUSW == "wtmlib_EvalTSCReliabilityCPUSW"
EvalTSCReliabilityCOP == "wtmlib_EvalTSCReliabilityCOP"
GetTSCToNsecConversionParams == "wtmlib_GetTSCToNsecConversionParams"

\* wtmlib_InitProcAndSysState
InitProcAndSysState == [initial_cpu |-> -1, initial_cpu_set |-> {}]

\* The output pointers of the functions.
Outputs(f) ==
    IF f = GetTSCToNsecConversionParams
       THEN {"conv_params_ret", "secs_before_wrap_ret"}
       ELSE {"tsc_range_length_ret", "is_monotonic_ret"}

\* Where a failing step jumps to: the label at the end of the public
\* function, which stands after the writes of the results.
ErrorExitBeforeWrites == "finish"

ErrorExit == "returned"

\* The function returns r from a failing step.
Return(r) == aret' = r /\ apc' = ErrorExit

\* a - b of two int64_t.  A difference outside int64_t is a signed overflow:
\* the library is built by g++ with neither -ftrapv nor an optimisation
\* level, and the subtraction of the build wraps around.
SignedSub(a, b) ==
    IF (a - b) \in Int64 THEN {a - b}
    ELSE {(((a - b) - INT64_MIN) % (UINT64_MAX + 1)) + INT64_MIN}

\* The ranges wtmlib_CalcTSCDeltaRangeCPUSW and wtmlib_CalcTSCDeltaRangeCOP
\* return with 0: both bounds are within INT64_MAX of zero, and the range is
\* no wider than INT64_MAX, being the intersection of two ranges or more
\* that are as wide as the steps of a counter that does not wrap.
DeltaRanges ==
    {d \in ((0 - INT64_MAX) .. INT64_MAX) \X ((0 - INT64_MAX) .. INT64_MAX) :
        d[1] <= d[2] /\ d[2] - d[1] <= INT64_MAX}

\* The update of the bounds of the enclosing range by a delta range.
UpdateBounds(d) ==
    /\ l_bound' = IF l_bound > d[1] THEN d[1] ELSE l_bound
    /\ u_bound' = IF u_bound < d[2] THEN d[2] ELSE u_bound

\* What the analyses return when they fail.
DeltaRangeCPUSWCodesAsCOP == {WTMLIB_RET_TSC_INCONSISTENCY, WTMLIB_RET_POOR_STAT}

DeltaRangeCPUSWCodes == {WTMLIB_RET_TSC_INCONSISTENCY}
DeltaRangeCOPCodes == {WTMLIB_RET_TSC_INCONSISTENCY, WTMLIB_RET_POOR_STAT}
MonotonicityCOPCodes ==
    {WTMLIB_RET_TSC_INCONSISTENCY, WTMLIB_RET_GENERIC_ERR, WTMLIB_RET_POOR_STAT}

\* A pthread_setaffinity_np() that succeeds.
SetAffinity(mask) ==
    /\ affinity' = mask
    /\ aff_changed' = (aff_changed \/ mask # affinity)

\* The single-CPU masks of a carousel over the CPUs of a set, by CPU ID.
RECURSIVE CarouselSets(_, _)
CarouselSets(from, set) ==
    IF from >= MaxCpus THEN <<>>
    ELSE IF from \in set THEN <<{from}>> \o CarouselSets(from + 1, set)
    ELSE CarouselSets(from + 1, set)

\* wtmlib_GetProcAndSystemState succeeds: the current CPU and the affinity
\* mask are captured.
GetStateOk ==
    /\ apc = "getstate"
    /\ \E c \in affinity :
          ps_state' = [initial_cpu |-> c, initial_cpu_set |-> affinity]
    /\ apc' = IF fn = EvalTSCReliabilityCPUSW THEN "range_alloc"
              ELSE IF fn = EvalTSCReliabilityCOP THEN "cop_range_alloc"
              ELSE "wrap_alloc"
    /\ UNCHANGED <<casVars, anaVars, convVars, car_log, resVars,
                   fn, affinity, cpu_id, cpu_sets, car_caller, car_round, car_ind,
                   aret, out_written, mask_at_entry, aff_changed, restore_called,
                   restore_failed>>

\* wtmlib_GetProcAndSystemState fails (sched_getcpu, CPU_ALLOC,
\* pthread_getaffinity_np or the cache line size).
GetStateFail ==
    /\ apc = "getstate"
    /\ Return(WTMLIB_RET_GENERIC_ERR)
    /\ UNCHANGED <<casVars, anaVars, convVars, car_log, resVars,
                   fn, affinity, ps_state, cpu_id, cpu_sets, car_caller, car_round,
                   car_ind, out_written, mask_at_entry, aff_changed, restore_called,
                   restore_failed>>

\* wtmlib_CalcTSCEnclosingRangeCPUSW: wtmlib_AllocMemForCPUCarousel.
RangeAllocOk ==
    /\ apc = "range_alloc"
    /\ cpu_sets' = <<{ps_state.initial_cpu}, {}>>
    /\ cpu_id' = 0
    /\ l_bound' = INT64_MAX
    /\ u_bound' = INT64_MIN
    /\ apc' = "range_loop"
    /\ UNCHANGED <<casVars, anaVars, convVars, car_log, tsc_range_length, is_monotonic,
                   tsc_range_length_ret, is_monotonic_ret,
                   fn, affinity, ps_state, car_caller, car_round, car_ind, aret,
                   out_written, mask_at_entry, aff_changed, restore_called,
                   restore_failed>>

RangeAllocFail ==
    /\ apc = "range_alloc"
    /\ Return(WTMLIB_RET_GENERIC_ERR)
    /\ UNCHANGED <<casVars, anaVars, convVars, car_log, resVars,
                   fn, affinity, ps_state, cpu_id, cpu_sets, car_caller, car_round,
                   car_ind, out_written, mask_at_entry, aff_changed, restore_called,
                   restore_failed>>

\* The loop over the CPUs: a CPU outside the constraint, or the base CPU.
RangeLoopSkip ==
    /\ apc = "range_loop"
    /\ cpu_id < MaxCpus
    /\ cpu_id \notin ps_state.initial_cpu_set \/ cpu_id = ps_state.initial_cpu
    /\ cpu_id' = cpu_id + 1
    /\ UNCHANGED <<casVars, anaVars, convVars, car_log, resVars,
                   fn, apc, affinity, ps_state, cpu_sets, car_caller, car_round,
                   car_ind, aret, out_written, mask_at_entry, aff_changed,
                   restore_called, restore_failed>>

\* The loop over the CPUs: a carousel of the base CPU and cpu_id is started.
RangeLoopCarousel ==
    /\ apc = "range_loop"
    /\ cpu_id < MaxCpus
    /\ ~(cpu_id \notin ps_state.initial_cpu_set \/ cpu_id = ps_state.initial_cpu)
    /\ cpu_sets' = [cpu_sets EXCEPT ![2] = {cpu_id}]
    /\ car_caller' = "range"
    /\ car_round' = 0
    /\ car_ind' = 0
    /\ apc' = "carousel"
    /\ car_log' = <<>>
    /\ UNCHANGED <<casVars, anaVars, convVars, resVars,
                   fn, affinity, ps_state, cpu_id, aret, out_written, mask_at_entry,
                   aff_changed, restore_called, restore_failed>>

\* The loop is over; wtmlib_CalcTSCEnclosingRangeCPUSW stores
\* u_bound - l_bound to *range_size and returns 0.
RangeLoopEnd ==
    /\ apc = "range_loop"
    /\ ~(cpu_id < MaxCpus)
    /\ tsc_range_length' \in SignedSub(u_bound, l_bound)
    /\ apc' = "mono_alloc"
    /\ UNCHANGED <<casVars, anaVars, convVars, car_log, l_bound, u_bound, is_monotonic,
                   tsc_range_length_ret, is_monotonic_ret,
                   fn, affinity, ps_state, cpu_id, cpu_sets, car_caller, car_round,
                   car_ind, aret, out_written, mask_at_entry, aff_changed,
                   restore_called, restore_failed>>

\* wtmlib_CollectTSCInCPUCarousel: num_rounds of the caller.
NumRounds ==
    IF car_caller = "range" THEN WTMLIB_CALC_TSC_RANGE_ROUND_COUNT
                            ELSE WTMLIB_EVAL_TSC_MONOTCTY_ROUND_COUNT

\* One pin of the carousel: the thread moves to cpu_sets[ind].
CarouselPinOk ==
    /\ apc = "carousel"
    /\ car_round < NumRounds
    /\ SetAffinity(cpu_sets[car_ind + 1])
    /\ IF car_ind + 1 < Len(cpu_sets)
          THEN car_ind' = car_ind + 1 /\ UNCHANGED car_round
          ELSE car_ind' = 0 /\ car_round' = car_round + 1
    /\ car_log' = car_log \o <<<<"pin", car_ind>>, <<"sample", car_ind, car_round>>>>
    /\ UNCHANGED <<casVars, anaVars, convVars, resVars,
                   fn, apc, ps_state, cpu_id, cpu_sets, car_caller, aret,
                   out_written, mask_at_entry, restore_called, restore_failed>>

\* A pin of the carousel fails: the carousel, its caller and
\* wtmlib_EvalTSCReliabilityCPUSW return WTMLIB_RET_GENERIC_ERR.
CarouselPinFail ==
    /\ apc = "carousel"
    /\ car_round < NumRounds
    /\ Return(WTMLIB_RET_GENERIC_ERR)
    /\ car_log' = Append(car_log, <<"pin_failed", car_ind>>)
    /\ UNCHANGED <<casVars, anaVars, convVars, resVars,
                   fn, affinity, ps_state, cpu_id, cpu_sets, car_caller, car_round,
                   car_ind, out_written, mask_at_entry, aff_changed, restore_called,
                   restore_failed>>

\* The carousel ends with the last pin and no sample after it.
CarouselEndsWithoutSample ==
    /\ apc = "carousel"
    /\ ~(car_round < NumRounds)
    /\ SetAffinity(cpu_sets[1])
    /\ apc' = IF car_caller = "range" THEN "range_delta" ELSE "mono_check"
    /\ car_log' = Append(car_log, <<"pin", 0>>)
    /\ UNCHANGED <<casVars, anaVars, convVars, resVars,
                   fn, ps_state, cpu_id, cpu_sets, car_caller, car_round, car_ind,
                   aret, out_written, mask_at_entry, restore_called, restore_failed>>

\* After the last round the thread moves to the first CPU again and takes
\* the sample tsc_vals[0][num_rounds].
CarouselLastPinOk ==
    /\ apc = "carousel"
    /\ ~(car_round < NumRounds)
    /\ SetAffinity(cpu_sets[1])
    /\ apc' = IF car_caller = "range" THEN "range_delta" ELSE "mono_check"
    /\ car_log' = car_log \o <<<<"pin", 0>>, <<"sample", 0, NumRounds>>>>
    /\ UNCHANGED <<casVars, anaVars, convVars, resVars,
                   fn, ps_state, cpu_id, cpu_sets, car_caller, car_round, car_ind,
                   aret, out_written, mask_at_entry, restore_called, restore_failed>>

CarouselLastPinFail ==
    /\ apc = "carousel"
    /\ ~(car_round < NumRounds)
    /\ Return(WTMLIB_RET_GENERIC_ERR)
    /\ car_log' = Append(car_log, <<"pin_failed", 0>>)
    /\ UNCHANGED <<casVars, anaVars, convVars, resVars,
                   fn, affinity, ps_state, cpu_id, cpu_sets, car_caller, car_round,
                   car_ind, out_written, mask_at_entry, aff_changed, restore_called,
                   restore_failed>>

\* wtmlib_CalcTSCDeltaRangeCPUSW on the samples of the carousel.
DeltaRangeOk ==
    /\ apc = "range_delta"
    /\ \E d \in DeltaRanges : UpdateBounds(d)
    /\ cpu_sets' = [cpu_sets EXCEPT ![2] = {}]
    /\ cpu_id' = cpu_id + 1
    /\ apc' = "range_loop"
    /\ UNCHANGED <<casVars, anaVars, convVars, car_log, tsc_range_length, is_monotonic,
                   tsc_range_length_ret, is_monotonic_ret,
                   fn, affinity, ps_state, car_caller, car_round, car_ind, aret,
                   out_written, mask_at_entry, aff_changed, restore_called,
                   restore_failed>>

DeltaRangeFail ==
    /\ apc = "range_delta"
    /\ \E r \in DeltaRangeCPUSWCodes : Return(r)
    /\ UNCHANGED <<casVars, anaVars, convVars, car_log, resVars,
                   fn, affinity, ps_state, cpu_id, cpu_sets, car_caller, car_round,
                   car_ind, out_written, mask_at_entry, aff_changed, restore_called,
                   restore_failed>>

\* wtmlib_EvalTSCMonotonicityCPUSW: wtmlib_AllocMemForCPUCarousel, the CPU
\* sets, and the start of the carousel over all the CPUs of the constraint.
MonoAllocOk ==
    /\ apc = "mono_alloc"
    /\ cpu_sets' = CarouselSets(0, ps_state.initial_cpu_set)
    /\ car_caller' = "mono"
    /\ car_round' = 0
    /\ car_ind' = 0
    /\ apc' = "carousel"
    /\ car_log' = <<>>
    /\ UNCHANGED <<casVars, anaVars, convVars, resVars,
                   fn, affinity, ps_state, cpu_id, aret, out_written, mask_at_entry,
                   aff_changed, restore_called, restore_failed>>

MonoAllocFail ==
    /\ apc = "mono_alloc"
    /\ Return(WTMLIB_RET_GENERIC_ERR)
    /\ UNCHANGED <<casVars, anaVars, convVars, car_log, resVars,
                   fn, affinity, ps_state, cpu_id, cpu_sets, car_caller, car_round,
                   car_ind, out_written, mask_at_entry, aff_changed, restore_called,
                   restore_failed>>

\* wtmlib_CheckCarouselValsConsistency and the monotonicity check.
MonoCheckOk ==
    /\ apc = "mono_check"
    /\ is_monotonic' \in BOOLEAN
    /\ apc' = "restore"
    /\ UNCHANGED <<casVars, anaVars, convVars, car_log, l_bound, u_bound, tsc_range_length,
                   tsc_range_length_ret, is_monotonic_ret,
                   fn, affinity, ps_state, cpu_id, cpu_sets, car_caller, car_round,
                   car_ind, aret, out_written, mask_at_entry, aff_changed,
                   restore_called, restore_failed>>

MonoCheckFail ==
    /\ apc = "mono_check"
    /\ Return(WTMLIB_RET_TSC_INCONSISTENCY)
    /\ UNCHANGED <<casVars, anaVars, convVars, car_log, resVars,
                   fn, affinity, ps_state, cpu_id, cpu_sets, car_caller, car_round,
                   car_ind, out_written, mask_at_entry, aff_changed, restore_called,
                   restore_failed>>

(***************************************************************************)
(* wtmlib_EvalTSCReliabilityCOP.  The probes are collected by threads of   *)
(* their own (specification Spec): the affinity of the calling thread is   *)
(* left alone, and a collection ends with 0 or WTMLIB_RET_GENERIC_ERR.     *)
(***************************************************************************)
\* wtmlib_CalcTSCEnclosingRangeCOP: wtmlib_AllocMemForCASOrderedProbes.
CopRangeAllocOk ==
    /\ apc = "cop_range_alloc"
    /\ cpu_sets' = <<{ps_state.initial_cpu}, {}>>
    /\ cpu_id' = 0
    /\ l_bound' = INT64_MAX
    /\ u_bound' = INT64_MIN
    /\ apc' = "cop_range_loop"
    /\ UNCHANGED <<casVars, anaVars, convVars, car_log, tsc_range_length, is_monotonic,
                   tsc_range_length_ret, is_monotonic_ret,
                   fn, affinity, ps_state, car_caller, car_round, car_ind, aret,
                   out_written, mask_at_entry, aff_changed, restore_called,
                   restore_failed>>

CopRangeAllocFail ==
    /\ apc = "cop_range_alloc"
    /\ Return(WTMLIB_RET_GENERIC_ERR)
    /\ UNCHANGED <<casVars, anaVars, convVars, car_log, resVars,
                   fn, affinity, ps_state, cpu_id, cpu_sets, car_caller, car_round,
                   car_ind, out_written, mask_at_entry, aff_changed, restore_called,
                   restore_failed>>

\* The loop over the CPUs: a CPU outside the constraint, or the base CPU.
CopRangeLoopSkip ==
    /\ apc = "cop_range_loop"
    /\ cpu_id < MaxCpus
    /\ cpu_id \notin ps_state.initial_cpu_set \/ cpu_id = ps_state.initial_cpu
    /\ cpu_id' = cpu_id + 1
    /\ UNCHANGED <<casVars, anaVars, convVars, car_log, resVars,
                   fn, apc, affinity, ps_state, cpu_sets, car_caller, car_round,
                   car_ind, aret, out_written, mask_at_entry, aff_changed,
                   restore_called, restore_failed>>

\* The loop over the CPUs: the probes of the base CPU and of cpu_id are
\* collected.
CopRangeCollectOk ==
    /\ apc = "cop_range_loop"
    /\ cpu_id < MaxCpus
    /\ ~(cpu_id \notin ps_state.initial_cpu_set \/ cpu_id = ps_state.initial_cpu)
    /\ cpu_sets' = [cpu_sets EXCEPT ![2] = {cpu_id}]
    /\ apc' = "cop_range_delta"
    /\ UNCHANGED <<casVars, anaVars, convVars, car_log, resVars,
                   fn, affinity, ps_state, cpu_id, car_caller, car_round, car_ind,
                   aret, out_written, mask_at_entry, aff_changed, restore_called,
                   restore_failed>>

CopRangeCollectFail ==
    /\ apc = "cop_range_loop"
    /\ cpu_id < MaxCpus
    /\ ~(cpu_id \notin ps_state.initial_cpu_set \/ cpu_id = ps_state.initial_cpu)
    /\ Return(WTMLIB_RET_GENERIC_ERR)
    /\ UNCHANGED <<casVars, anaVars, convVars, car_log, resVars,
                   fn, affinity, ps_state, cpu_id, cpu_sets, car_caller, car_round,
                   car_ind, out_written, mask_at_entry, aff_changed, restore_called,
                   restore_failed>>

\* wtmlib_CalcTSCDeltaRangeCOP on the collected probes.
CopDeltaRangeOk ==
    /\ apc = "cop_range_delta"
    /\ \E d \in DeltaRanges : UpdateBounds(d)
    /\ cpu_sets' = [cpu_sets EXCEPT ![2] = {}]
    /\ cpu_id' = cpu_id + 1
    /\ apc' = "cop_range_loop"
    /\ UNCHANGED <<casVars, anaVars, convVars, car_log, tsc_range_length, is_monotonic,
                   tsc_range_length_ret, is_monotonic_ret,
                   fn, affinity, ps_state, car_caller, car_round, car_ind, aret,
                   out_written, mask_at_entry, aff_changed, restore_called,
                   restore_failed>>

CopDeltaRangeFail ==
    /\ apc = "cop_range_delta"
    /\ \E r \in DeltaRangeCOPCodes : Return(r)
    /\ UNCHANGED <<casVars, anaVars, convVars, car_log, resVars,
                   fn, affinity, ps_state, cpu_id, cpu_sets, car_caller, car_round,
                   car_ind, out_written, mask_at_entry, aff_changed, restore_called,
                   restore_failed>>

\* The loop is over; wtmlib_CalcTSCEnclosingRangeCOP stores u_bound - l_bound
\* to *range_size and returns 0.
CopRangeLoopEnd ==
    /\ apc = "cop_range_loop"
    /\ ~(cpu_id < MaxCpus)
    /\ tsc_range_length' \in SignedSub(u_bound, l_bound)
    /\ apc' = "cop_mono_alloc"
    /\ UNCHANGED <<casVars, anaVars, convVars, car_log, l_bound, u_bound, is_monotonic,
                   tsc_range_length_ret, is_monotonic_ret,
                   fn, affinity, ps_state, cpu_id, cpu_sets, car_caller, car_round,
                   car_ind, aret, out_written, mask_at_entry, aff_changed,
                   restore_called, restore_failed>>

\* wtmlib_EvalTSCMonotonicityCOP: wtmlib_AllocMemForCASOrderedProbes and the
\* CPU sets, one for each CPU of the constraint.
CopMonoAllocOk ==
    /\ apc = "cop_mono_alloc"
    /\ cpu_sets' = CarouselSets(0, ps_state.initial_cpu_set)
    /\ apc' = "cop_mono_collect"
    /\ UNCHANGED <<casVars, anaVars, convVars, car_log, resVars,
                   fn, affinity, ps_state, cpu_id, car_caller, car_round, car_ind,
                   aret, out_written, mask_at_entry, aff_changed, restore_called,
                   restore_failed>>

CopMonoAllocFail ==
    /\ apc = "cop_mono_alloc"
    /\ Return(WTMLIB_RET_GENERIC_ERR)
    /\ UNCHANGED <<casVars, anaVars, convVars, car_log, resVars,
                   fn, affinity, ps_state, cpu_id, cpu_sets, car_caller, car_round,
                   car_ind, out_written, mask_at_entry, aff_changed, restore_called,
                   restore_failed>>

\* wtmlib_CollectCASOrderedTSCProbes on all the CPUs of the constraint.
CopMonoCollectOk ==
    /\ apc = "cop_mono_collect"
    /\ apc' = "cop_mono_check"
    /\ UNCHANGED <<casVars, anaVars, convVars, car_log, resVars,
                   fn, affinity, ps_state, cpu_id, cpu_sets, car_caller, car_round,
                   car_ind, aret, out_written, mask_at_entry, aff_changed,
                   restore_called, restore_failed>>

CopMonoCollectFail ==
    /\ apc = "cop_mono_collect"
    /\ Return(WTMLIB_RET_GENERIC_ERR)
    /\ UNCHANGED <<casVars, anaVars, convVars, car_log, resVars,
                   fn, affinity, ps_state, cpu_id, cpu_sets, car_caller, car_round,
                   car_ind, out_written, mask_at_entry, aff_changed, restore_called,
                   restore_failed>>

\* wtmlib_IsProbeSequenceMonotonic on the collected probes; after it the
\* public function writes the results.
CopMonoCheckOk ==
    /\ apc = "cop_mono_check"
    /\ is_monotonic' \in BOOLEAN
    /\ apc' = "finish"
    /\ UNCHANGED <<casVars, anaVars, convVars, car_log, l_bound, u_bound, tsc_range_length,
                   tsc_range_length_ret, is_monotonic_ret,
                   fn, affinity, ps_state, cpu_id, cpu_sets, car_caller, car_round,
                   car_ind, aret, out_written, mask_at_entry, aff_changed,
                   restore_called, restore_failed>>

CopMonoCheckFail ==
    /\ apc = "cop_mono_check"
    /\ \E r \in MonotonicityCOPCodes : Return(r)
    /\ UNCHANGED <<casVars, anaVars, convVars, car_log, resVars,
                   fn, affinity, ps_state, cpu_id, cpu_sets, car_caller, car_round,
                   car_ind, out_written, mask_at_entry, aff_changed, restore_called,
                   restore_failed>>

\* wtmlib_GetTSCToNsecConversionParams up to the call of
\* wtmlib_CalcTimeBeforeTSCWrap: calloc, wtmlib_CalcTSCCountPerSecond,
\* wtmlib_CalcFreeFromNoiseTSCPerSec, wtmlib_CalcTSCToNsecConversionParams.
\* None of them touches the affinity.
ConvComputeOk ==
    /\ apc = "conv_compute"
    /\ apc' = "getstate"
    /\ UNCHANGED <<casVars, anaVars, convVars, car_log, resVars,
                   fn, affinity, ps_state, cpu_id, cpu_sets, car_caller, car_round,
                   car_ind, aret, out_written, mask_at_entry, aff_changed,
                   restore_called, restore_failed>>

ConvComputeFail ==
    /\ apc = "conv_compute"
    /\ \E r \in {WTMLIB_RET_GENERIC_ERR, WTMLIB_RET_TSC_INCONSISTENCY} : Return(r)
    /\ UNCHANGED <<casVars, anaVars, convVars, car_log, resVars,
                   fn, affinity, ps_state, cpu_id, cpu_sets, car_caller, car_round,
                   car_ind, out_written, mask_at_entry, aff_changed, restore_called,
                   restore_failed>>

\* wtmlib_CalcTimeBeforeTSCWrap: CPU_ALLOC of the loop's CPU set.
WrapAllocOk ==
    /\ apc = "wrap_alloc"
    /\ cpu_id' = 0
    /\ apc' = "wrap_loop"
    /\ UNCHANGED <<casVars, anaVars, convVars, car_log, resVars,
                   fn, affinity, ps_state, cpu_sets, car_caller, car_round, car_ind,
                   aret, out_written, mask_at_entry, aff_changed, restore_called,
                   restore_failed>>

WrapAllocFail ==
    /\ apc = "wrap_alloc"
    /\ Return(WTMLIB_RET_GENERIC_ERR)
    /\ UNCHANGED <<casVars, anaVars, convVars, car_log, resVars,
                   fn, affinity, ps_state, cpu_id, cpu_sets, car_caller, car_round,
                   car_ind, out_written, mask_at_entry, aff_changed, restore_called,
                   restore_failed>>

\* The loop over the CPUs: a CPU outside the initial CPU set.
WrapLoopSkip ==
    /\ apc = "wrap_loop"
    /\ cpu_id < MaxCpus
    /\ cpu_id \notin ps_state.initial_cpu_set
    /\ cpu_id' = cpu_id + 1
    /\ UNCHANGED <<casVars, anaVars, convVars, car_log, resVars,
                   fn, apc, affinity, ps_state, cpu_sets, car_caller, car_round,
                   car_ind, aret, out_written, mask_at_entry, aff_changed,
                   restore_called, restore_failed>>

\* The loop over the CPUs: the thread moves to cpu_id and reads the TSC.
WrapPinOk ==
    /\ apc = "wrap_loop"
    /\ cpu_id < MaxCpus
    /\ cpu_id \in ps_state.initial_cpu_set
    /\ SetAffinity({cpu_id})
    /\ cpu_id' = cpu_id + 1
    /\ UNCHANGED <<casVars, anaVars, convVars, car_log, resVars,
                   fn, apc, ps_state, cpu_sets, car_caller, car_round, car_ind, aret,
                   out_written, mask_at_entry, restore_called, restore_failed>>

\* The pin fails: break, and with cpu_id < num_cpus the function returns.
WrapPinFail ==
    /\ apc = "wrap_loop"
    /\ cpu_id < MaxCpus
    /\ cpu_id \in ps_state.initial_cpu_set
    /\ Return(WTMLIB_RET_GENERIC_ERR)
    /\ UNCHANGED <<casVars, anaVars, convVars, car_log, resVars,
                   fn, affinity, ps_state, cpu_id, cpu_sets, car_caller, car_round,
                   car_ind, out_written, mask_at_entry, aff_changed, restore_called,
                   restore_failed>>

WrapLoopEnd ==
    /\ apc = "wrap_loop"
    /\ ~(cpu_id < MaxCpus)
    /\ apc' = "restore"
    /\ UNCHANGED <<casVars, anaVars, convVars, car_log, resVars,
                   fn, affinity, ps_state, cpu_id, cpu_sets, car_caller, car_round,
                   car_ind, aret, out_written, mask_at_entry, aff_changed,
                   restore_called, restore_failed>>

\* What the callers of wtmlib_RestoreInitialProcState do with its return
\* value: if ( ret ) the function returns WTMLIB_RET_GENERIC_ERR at once.
RestoreFailureIgnored(r) == FALSE

RestoreFailureFatal(r) == r # 0

\* wtmlib_RestoreInitialProcState fails at a step.
RestoreFailed(step) ==
    /\ restore_called' = TRUE
    /\ restore_failed' = step
    /\ aret' = WTMLIB_RET_GENERIC_ERR
    /\ apc' = IF RestoreFailureFatal(WTMLIB_RET_GENERIC_ERR) THEN "returned"
                                                             ELSE "finish"

\* wtmlib_RestoreInitialProcState: CPU_ALLOC fails.
RestoreAllocFail ==
    /\ apc = "restore"
    /\ RestoreFailed("alloc")
    /\ UNCHANGED <<casVars, anaVars, convVars, car_log, resVars,
                   fn, affinity, ps_state, cpu_id, cpu_sets, car_caller, car_round,
                   car_ind, out_written, mask_at_entry, aff_changed>>

\* The first step: the thread moves to the initial CPU.
RestorePinOk ==
    /\ apc = "restore"
    /\ SetAffinity({ps_state.initial_cpu})
    /\ restore_called' = TRUE
    /\ apc' = "restore_widen"
    /\ UNCHANGED <<casVars, anaVars, convVars, car_log, resVars,
                   fn, ps_state, cpu_id, cpu_sets, car_caller, car_round, car_ind,
                   aret, out_written, mask_at_entry, restore_failed>>

RestorePinFail ==
    /\ apc = "restore"
    /\ RestoreFailed("pin")
    /\ UNCHANGED <<casVars, anaVars, convVars, car_log, resVars,
                   fn, affinity, ps_state, cpu_id, cpu_sets, car_caller, car_round,
                   car_ind, out_written, mask_at_entry, aff_changed>>

\* The mask of the second step: state->initial_cpu_set.
InitialCpuOnly(st) == {st.initial_cpu}

RestoredMask(st) == st.initial_cpu_set

\* The second step: the thread is confined to the initial CPU set, and
\* wtmlib_RestoreInitialProcState returns 0.
RestoreWidenOk ==
    /\ apc = "restore_widen"
    /\ SetAffinity(RestoredMask(ps_state))
    /\ aret' = 0
    /\ apc' = "finish"
    /\ UNCHANGED <<casVars, anaVars, convVars, car_log, resVars,
                   fn, ps_state, cpu_id, cpu_sets, car_caller, car_round, car_ind,
                   out_written, mask_at_entry, restore_called, restore_failed>>

RestoreWidenFail ==
    /\ apc = "restore_widen"
    /\ RestoreFailed("widen")
    /\ UNCHANGED <<casVars, anaVars, convVars, car_log, resVars,
                   fn, affinity, ps_state, cpu_id, cpu_sets, car_caller, car_round,
                   car_ind, out_written, mask_at_entry, aff_changed>>

\* The results are written to the output pointers and the function returns
\* ret.
Finish ==
    /\ apc = "finish"
    /\ out_written' = Outputs(fn)
    /\ IF fn = GetTSCToNsecConversionParams
          THEN UNCHANGED <<tsc_range_length_ret, is_monotonic_ret>>
          ELSE /\ tsc_range_length_ret' = <<tsc_range_length>>
               /\ is_monotonic_ret' = <<is_monotonic>>
    /\ apc' = "returned"
    /\ UNCHANGED <<casVars, anaVars, convVars, car_log, l_bound, u_bound, tsc_range_length,
                   is_monotonic,
                   fn, affinity, ps_state, cpu_id, cpu_sets, car_caller, car_round,
                   car_ind, aret, mask_at_entry, aff_changed, restore_called,
                   restore_failed>>

AffStep ==
    \/ GetStateOk
    \/ GetStateFail
    \/ RangeAllocOk
    \/ RangeAllocFail
    \/ RangeLoopSkip
    \/ RangeLoopCarousel
    \/ RangeLoopEnd
    \/ CarouselPinOk
    \/ CarouselPinFail
    \/ CarouselLastPinOk
    \/ CarouselLastPinFail
    \/ DeltaRangeOk
    \/ DeltaRangeFail
    \/ MonoAllocOk
    \/ MonoAllocFail
    \/ MonoCheckOk
    \/ MonoCheckFail
    \/ CopRangeAllocOk
    \/ CopRangeAllocFail
    \/ CopRangeLoopSkip
    \/ CopRangeCollectOk
    \/ CopRangeCollectFail
    \/ CopDeltaRangeOk
    \/ CopDeltaRangeFail
    \/ CopRangeLoopEnd
    \/ CopMonoAllocOk
    \/ CopMonoAllocFail
    \/ CopMonoCollectOk
    \/ CopMonoCollectFail
    \/ CopMonoCheckOk
    \/ CopMonoCheckFail
    \/ ConvComputeOk
    \/ ConvComputeFail
    \/ WrapAllocOk
    \/ WrapAllocFail
    \/ WrapLoopSkip
    \/ WrapPinOk
    \/ WrapPinFail
    \/ WrapLoopEnd
    \/ RestoreAllocFail
    \/ RestorePinOk
    \/ RestorePinFail
    \/ RestoreWidenOk
    \/ RestoreWidenFail
    \/ Finish

(***************************************************************************)
(* The analysis of collected samples.  tsc_vals[c][i] of the program is    *)
(* tsc_vals[c + 1][i + 1] here, and so for the probes.                     *)
(***************************************************************************)
CalcTSCDeltaRangeCPUSWName == "wtmlib_CalcTSCDeltaRangeCPUSW"
EvalTSCMonotonicityCPUSWName == "wtmlib_EvalTSCMonotonicityCPUSW"
CalcTSCDeltaRangeCOPName == "wtmlib_CalcTSCDeltaRangeCOP"
IsProbeSequenceMonotonicName == "wtmlib_IsProbeSequenceMonotonic"

\* a - b of two uint64_t
USub(a, b) == (a - b) % (UINT64_MAX + 1)

\* (a difference that passes every check of its size)
AbsDiffUnchecked(a, b) == 0

\* ABS_DIFF of two uint64_t
ABS_DIFF(a, b) == IF a > b THEN USub(a, b) ELSE USub(b, a)

\* (a uint64_t taken for an int64_t of the same value)
Uint64AsIs(u) == u

\* the conversion of a uint64_t to int64_t
ToInt64(u) == IF u > INT64_MAX THEN u - (UINT64_MAX + 1) ELSE u

\* What an analysis returns: the code; whether it wrote its results, and
\* the results (the delta range, the monotonicity); whether the assertions
\* held; whether the counters of the scan stayed in their ranges; the
\* ranges and the full loops counted; the sequence number the scan stopped
\* at; whether a word beyond the end of an array was read, and whether one
\* was taken for a probe.
Result(code) ==
    [ret |-> code, written |-> FALSE, delta_min |-> 0, delta_max |-> 0,
     is_monotonic |-> FALSE, asserts_ok |-> TRUE, counters_ok |-> TRUE,
     num_ranges |-> 0, num_loops |-> 0, stop_seq |-> 0, read_oob |-> FALSE,
     oob |-> FALSE]

\* tsc_vals[c][i]
TscVal(tv, c, i) == tv[c + 1][i + 1]

\* (samples that pass without a look at them)
ConsistencyUnchecked(samples, k, num) == 0

\* wtmlib_CheckCarouselValsConsistency
CheckCarouselValsConsistency(tv, k, R) ==
    IF TscVal(tv, 0, 0) = TscVal(tv, 0, R) THEN WTMLIB_RET_TSC_INCONSISTENCY
    ELSE IF \E i \in 1 .. (k - 1) : TscVal(tv, i, 0) = TscVal(tv, i, R - 1)
         THEN WTMLIB_RET_TSC_INCONSISTENCY
    ELSE 0

\* The intersection of the delta range with a per-round or per-pair range:
\* the new d_min and d_max.
Intersect(d_min, d_max, bound_min, bound_max) ==
    <<IF bound_min > d_min THEN bound_min ELSE d_min,
      IF bound_max < d_max THEN bound_max ELSE d_max>>

\* The rounds i, i + 1, ... of the loop of wtmlib_CalcTSCDeltaRangeCPUSW and
\* the end of the function.
RECURSIVE DeltaRangeCPUSWFrom(_, _, _, _, _, _)
DeltaRangeCPUSWFrom(tv, R, i, d_min, d_max, ok) ==
    IF ~(i < R)
    THEN [Result(0) EXCEPT !.written = TRUE, !.delta_min = d_min,
                           !.delta_max = d_max,
                           !.asserts_ok = (ok /\ d_min <= d_max),
                           !.num_ranges = i]
    ELSE IF \/ TscVal(tv, 0, i + 1) < TscVal(tv, 0, i)
            \/ (i > 0 /\ TscVal(tv, 1, i) < TscVal(tv, 1, i - 1))
    THEN [Result(WTMLIB_RET_TSC_INCONSISTENCY) EXCEPT !.asserts_ok = ok]
    ELSE IF \/ ABS_DIFF(TscVal(tv, 1, i), TscVal(tv, 0, i)) > INT64_MAX
            \/ ABS_DIFF(TscVal(tv, 1, i), TscVal(tv, 0, i + 1)) > INT64_MAX
    THEN [Result(WTMLIB_RET_TSC_INCONSISTENCY) EXCEPT !.asserts_ok = ok]
    ELSE LET bound_min == ToInt64(USub(TscVal(tv, 1, i), TscVal(tv, 0, i + 1)))
             bound_max == ToInt64(USub(TscVal(tv, 1, i), TscVal(tv, 0, i)))
             ok2 == ok /\ bound_min <= bound_max
             d == Intersect(d_min, d_max, bound_min, bound_max)
         IN  IF bound_min > d_max \/ bound_max < d_min
             THEN [Result(WTMLIB_RET_TSC_INCONSISTENCY) EXCEPT
                      !.asserts_ok = ok2]
             ELSE DeltaRangeCPUSWFrom(tv, R, i + 1, d[1], d[2], ok2)

\* wtmlib_CalcTSCDeltaRangeCPUSW
CalcTSCDeltaRangeCPUSW(tv, R) ==
    IF CheckCarouselValsConsistency(tv, 2, R) # 0
    THEN Result(WTMLIB_RET_TSC_INCONSISTENCY)
    ELSE DeltaRangeCPUSWFrom(tv, R, 0, INT64_MIN, INT64_MAX, TRUE)

\* The loops of wtmlib_EvalTSCMonotonicityCPUSW over the rounds and, in a
\* round, over the CPUs: <<prev_tsc_val, is_monotonic>> after them.  The
\* break leaves the inner loop only.
RECURSIVE MonotonicityCPUSWFrom(_, _, _, _, _, _, _)
MonotonicityCPUSWFrom(tv, k, R, round, tsc_series, prev_tsc_val, mono) ==
    IF ~(round < R) THEN <<prev_tsc_val, mono>>
    ELSE IF ~(tsc_series < k)
    THEN MonotonicityCPUSWFrom(tv, k, R, round + 1, 0, prev_tsc_val, mono)
    ELSE IF TscVal(tv, tsc_series, round) < prev_tsc_val
    THEN MonotonicityCPUSWFrom(tv, k, R, round + 1, 0, prev_tsc_val, FALSE)
    ELSE MonotonicityCPUSWFrom(tv, k, R, round, tsc_series + 1,
                               TscVal(tv, tsc_series, round), mono)

\* (the evaluation without the check of the last sample of CPU 0)
EvalTSCMonotonicityCPUSWWithoutLast(tv, k, R) ==
    IF CheckCarouselValsConsistency(tv, k, R) # 0
    THEN Result(WTMLIB_RET_TSC_INCONSISTENCY)
    ELSE LET w == MonotonicityCPUSWFrom(tv, k, R, 0, 0, TscVal(tv, 0, 0), TRUE)
         IN  [Result(0) EXCEPT !.written = TRUE, !.is_monotonic = w[2]]

\* wtmlib_EvalTSCMonotonicityCPUSW from the consistency check on.
EvalTSCMonotonicityCPUSW(tv, k, R) ==
    IF CheckCarouselValsConsistency(tv, k, R) # 0
    THEN Result(WTMLIB_RET_TSC_INCONSISTENCY)
    ELSE LET w == MonotonicityCPUSWFrom(tv, k, R, 0, 0, TscVal(tv, 0, 0), TRUE)
             mono == IF w[2] THEN ~(TscVal(tv, 0, R) < w[1]) ELSE FALSE
         IN  [Result(0) EXCEPT !.written = TRUE, !.is_monotonic = mono]

\* A sequence number that no scan waits for.
NoSeqNum(n, k) == n * k + 2

\* tsc_probes[c][i].  An array holds num_probes probes and nothing is
\* allocated behind it (sixteen bytes times 1000 probes is a whole number of
\* cache lines, lines 264-275): the read of an element at num_probes or
\* beyond is out of bounds and gives what happens to be there, g[1] at
\* num_probes and g[2] at num_probes + 1.
TscProbe(tp, n, g, c, i) == IF i < n THEN tp[c + 1][i + 1] ELSE g[(i - n) + 1]

\* What may stand behind an array of n probes filled by k threads: any
\* TSC value with any sequence number in the first place and, to bound the
\* reads, a sequence number that no scan waits for in the second.
Garbage(n, k) ==
    {<<a, b>> : a \in [tsc_val : Uint64,
                       seq_num : (n .. (n * k - 1)) \cup {NoSeqNum(n, k)}],
                b \in [tsc_val : Uint64, seq_num : {NoSeqNum(n, k)}]}

\* Behind the array stands nothing that a scan waits for.
NoMatch(n, k) == <<[tsc_val |-> 0, seq_num |-> NoSeqNum(n, k)],
                  [tsc_val |-> 0, seq_num |-> NoSeqNum(n, k)]>>

\* wtmlib_CheckTSCProbesConsistency
CheckTSCProbesConsistency(tp, k, n) ==
    IF \E i \in 0 .. (k - 1) :
          tp[i + 1][1].tsc_val = tp[i + 1][n].tsc_val
    THEN WTMLIB_RET_TSC_INCONSISTENCY
    ELSE 0

\* for ( ; tsc_probes[1][ig].seq_num == ig; ig++, seq_num++ ): ig at its end
RECURSIVE SkipLoop(_, _, _, _)
SkipLoop(tp, n, g, ig) ==
    IF TscProbe(tp, n, g, 1, ig).seq_num = ig THEN SkipLoop(tp, n, g, ig + 1)
    ELSE ig

\* for ( ; ig < num_probes && tsc_probes[1][ig].seq_num <
\*         tsc_probes[0][ib].seq_num; ig++, seq_num++ ): ig at its end
RECURSIVE EnclosedLoop(_, _, _, _, _)
EnclosedLoop(tp, n, g, ib, ig) ==
    IF ig < n /\ TscProbe(tp, n, g, 1, ig).seq_num
                    < TscProbe(tp, n, g, 0, ib).seq_num
    THEN EnclosedLoop(tp, n, g, ib, ig + 1)
    ELSE ig

\* (a pace that is never found faster)
PaceUnchecked(tsc_base_prev, tsc_base_curr, tsc_given_min, tsc_given_max) ==
    FALSE

\* tsc_base_curr - tsc_base_prev < tsc_given_max - tsc_given_min: between
\* two probes of the base CPU the TSC of the other CPU advanced by more than
\* the TSC of the base CPU.
OtherRunsFaster(tsc_base_prev, tsc_base_curr, tsc_given_min, tsc_given_max) ==
    USub(tsc_base_curr, tsc_base_prev) < USub(tsc_given_max, tsc_given_min)

\* The iterations ib, ib + 1, ... of the main loop of
\* wtmlib_CalcTSCDeltaRangeCOP and the end of the function.
RECURSIVE DeltaRangeCOPFrom(_, _, _, _, _, _, _, _, _, _)
DeltaRangeCOPFrom(tp, n, g, ib, ig, seq, num_ranges, d_min, d_max, ok) ==
    IF ~(ib < n)
    THEN IF num_ranges < WTMLIB_TSC_DELTA_RANGE_COUNT_THRESHOLD
         THEN [Result(WTMLIB_RET_POOR_STAT) EXCEPT
                  !.asserts_ok = ok, !.num_ranges = num_ranges,
                  !.oob = (ig > n)]
         ELSE [Result(0) EXCEPT
                  !.written = TRUE, !.delta_min = d_min, !.delta_max = d_max,
                  !.asserts_ok = (ok /\ d_min <= d_max),
                  !.num_ranges = num_ranges, !.oob = (ig > n)]
    ELSE IF TscProbe(tp, n, g, 0, ib).seq_num = seq + 1
    THEN DeltaRangeCOPFrom(tp, n, g, ib + 1, ig, seq + 1, num_ranges,
                           d_min, d_max, ok)
    ELSE LET tsc_base_prev == TscProbe(tp, n, g, 0, ib - 1).tsc_val
             tsc_base_curr == TscProbe(tp, n, g, 0, ib).tsc_val
             sub_seq_first == ig
             ig2 == EnclosedLoop(tp, n, g, ib, ig)
             sub_seq_last == ig2 - 1
             tsc_given_min == TscProbe(tp, n, g, 1, sub_seq_first).tsc_val
             tsc_given_max == TscProbe(tp, n, g, 1, sub_seq_last).tsc_val
             bound_min == ToInt64(USub(tsc_given_max, tsc_base_curr))
             bound_max == ToInt64(USub(tsc_given_min, tsc_base_prev))
             ok2 == ok /\ bound_min <= bound_max
             d == Intersect(d_min, d_max, bound_min, bound_max)
             fail(a) == [Result(WTMLIB_RET_TSC_INCONSISTENCY) EXCEPT
                            !.asserts_ok = a, !.num_ranges = num_ranges + 1,
                            !.oob = (ig > n)]
         IN  IF \/ ABS_DIFF(tsc_given_min, tsc_base_prev) > INT64_MAX
                \/ ABS_DIFF(tsc_given_max, tsc_base_curr) > INT64_MAX
             THEN fail(ok)
             ELSE IF OtherRunsFaster(tsc_base_prev, tsc_base_curr,
                                     tsc_given_min, tsc_given_max)
             THEN fail(ok)
             ELSE IF bound_min > d_max \/ bound_max < d_min
             THEN fail(ok2)
             ELSE DeltaRangeCOPFrom(tp, n, g, ib + 1, ig2,
                                    (seq + (ig2 - ig)) + 1, num_ranges + 1,
                                    d[1], d[2], ok2)

\* wtmlib_CalcTSCDeltaRangeCOP
CalcTSCDeltaRangeCOP(tp, n, g) ==
    IF CheckTSCProbesConsistency(tp, 2, n) # 0
    THEN Result(WTMLIB_RET_TSC_INCONSISTENCY)
    ELSE IF \E i \in 1 .. (n - 1) :
               \/ tp[1][i + 1].tsc_val < tp[1][i].tsc_val
               \/ tp[2][i + 1].tsc_val < tp[2][i].tsc_val
    THEN Result(WTMLIB_RET_TSC_INCONSISTENCY)
    ELSE LET ig == IF tp[2][1].seq_num = 0 THEN SkipLoop(tp, n, g, 0) ELSE 0
         IN  [DeltaRangeCOPFrom(tp, n, g, 1, ig, ig, 0, INT64_MIN, INT64_MAX,
                                TRUE) EXCEPT !.read_oob = ~(ig < n)]

\* The inner loop of wtmlib_IsProbeSequenceMonotonic: the first cpu_ind from
\* c on whose current probe has the sequence number i, or num_avail_cpus.
RECURSIVE FindProbe(_, _, _, _, _, _, _)
FindProbe(tp, n, k, g, indexes, i, c) ==
    IF ~(c < k) THEN k
    ELSE IF TscProbe(tp, n, g, c, indexes[c + 1]).seq_num # i
    THEN FindProbe(tp, n, k, g, indexes, i, c + 1)
    ELSE c

\* The iterations i, i + 1, ... of the outer loop of
\* wtmlib_IsProbeSequenceMonotonic and the end of the function.  st holds
\* indexes, prev_tsc_val, num_loops, cpus_seen, cpu_seen_num, whether a
\* word beyond an array was read or taken for a probe, whether every
\* WTMLIB_ASSERT passed so far held and whether the counters were in their
\* ranges after every iteration so far.
RECURSIVE ProbeSequenceFrom(_, _, _, _, _, _, _)
ProbeSequenceFrom(tp, n, k, g, first_cpu_ind, i, st) ==
    IF ~(i < n * k)
    THEN IF st.num_loops < WTMLIB_FULL_LOOP_COUNT_THRESHOLD
         THEN [Result(WTMLIB_RET_POOR_STAT) EXCEPT
                  !.num_loops = st.num_loops, !.stop_seq = i,
                  !.asserts_ok = st.asserts_ok,
                  !.counters_ok = st.counters_ok,
                  !.read_oob = st.read_oob, !.oob = st.oob]
         ELSE [Result(0) EXCEPT
                  !.written = TRUE, !.is_monotonic = TRUE,
                  !.num_loops = st.num_loops, !.stop_seq = i,
                  !.asserts_ok = st.asserts_ok,
                  !.counters_ok = st.counters_ok,
                  !.read_oob = st.read_oob, !.oob = st.oob]
    ELSE LET cpu_ind == FindProbe(tp, n, k, g, st.indexes, i, 0)
             read2 == \/ st.read_oob
                      \/ \E c \in 0 .. (k - 1) :
                            c <= cpu_ind /\ ~(st.indexes[c + 1] < n)
         IN  IF cpu_ind = k
             THEN [Result(WTMLIB_RET_GENERIC_ERR) EXCEPT
                      !.num_loops = st.num_loops, !.stop_seq = i,
                      !.asserts_ok = st.asserts_ok,
                      !.counters_ok = st.counters_ok,
                      !.read_oob = read2, !.oob = st.oob]
             ELSE
             LET tsc_probe == TscProbe(tp, n, g, cpu_ind, st.indexes[cpu_ind + 1])
                 oob2 == st.oob \/ ~(st.indexes[cpu_ind + 1] < n)
                 full_loop == st.cpus_seen = k /\ cpu_ind = first_cpu_ind
                 num_loops2 == IF full_loop THEN st.num_loops + 1
                                            ELSE st.num_loops
                 cpus_seen2 == IF full_loop THEN 0 ELSE st.cpus_seen
                 first_seen == st.cpu_seen_num[cpu_ind + 1] < num_loops2 + 1
                 cpus_seen3 == IF first_seen THEN cpus_seen2 + 1
                                             ELSE cpus_seen2
                 cpu_seen_num2 ==
                     IF first_seen
                     THEN [st.cpu_seen_num EXCEPT ![cpu_ind + 1] = @ + 1]
                     ELSE st.cpu_seen_num
                 asserts2 ==
                     /\ st.asserts_ok
                     /\ IF first_seen
                        THEN /\ st.cpu_seen_num[cpu_ind + 1] = num_loops2
                             /\ cpus_seen3 <= k
                        ELSE st.cpu_seen_num[cpu_ind + 1] = num_loops2 + 1
                 counters2 ==
                     /\ st.counters_ok
                     /\ 0 <= cpus_seen3 /\ cpus_seen3 <= k
                     /\ \A c \in 1 .. k :
                           cpu_seen_num2[c] \in {num_loops2, num_loops2 + 1}
             IN  IF tsc_probe.tsc_val < st.prev_tsc_val
                 THEN [Result(0) EXCEPT
                          !.written = TRUE, !.is_monotonic = FALSE,
                          !.num_loops = st.num_loops, !.stop_seq = i,
                          !.asserts_ok = st.asserts_ok,
                          !.counters_ok = st.counters_ok,
                          !.read_oob = read2, !.oob = oob2]
                 ELSE ProbeSequenceFrom(tp, n, k, g, first_cpu_ind, i + 1,
                        [indexes |-> [st.indexes EXCEPT ![cpu_ind + 1] = @ + 1],
                         prev_tsc_val |-> tsc_probe.tsc_val,
                         num_loops |-> num_loops2,
                         cpus_seen |-> cpus_seen3,
                         cpu_seen_num |-> cpu_seen_num2,
                         asserts_ok |-> asserts2,
                         counters_ok |-> counters2,
                         read_oob |-> read2,
                         oob |-> oob2])

\* wtmlib_IsProbeSequenceMonotonic, the two calloc() succeeding.
IsProbeSequenceMonotonic(tp, n, k, g) ==
    IF CheckTSCProbesConsistency(tp, k, n) # 0
    THEN Result(WTMLIB_RET_TSC_INCONSISTENCY)
    ELSE LET first_cpu_ind ==
                 CHOOSE c \in 0 .. (k - 1) :
                    /\ tp[c + 1][1].seq_num = 0
                    /\ \A b \in 0 .. (c - 1) : tp[b + 1][1].seq_num # 0
         IN  ProbeSequenceFrom(tp, n, k, g, first_cpu_ind, 0,
                [indexes |-> [c \in 1 .. k |-> 0],
                 prev_tsc_val |-> 0,
                 num_loops |-> 0,
                 cpus_seen |-> 0,
                 cpu_seen_num |-> [c \in 1 .. k |-> 0],
                 asserts_ok |-> TRUE,
                 counters_ok |-> TRUE,
                 read_oob |-> FALSE,
                 oob |-> FALSE])

\* What a function that scans the probes may return: if it reads nothing
\* behind the arrays, its one result r; otherwise one of the results rs,
\* one for everything that may stand there.
Outcomes(r, rs) == IF r.read_oob THEN rs ELSE {r}

\* The analysis f has returned r.
AnaReturn(f, r) ==
    /\ ana_fn' = f
    /\ ana_pc' = IF r = Result(WTMLIB_RET_GENERIC_ERR) THEN "nomem" ELSE "done"
    /\ ana_res' = r
    /\ UNCHANGED <<casVars, affVars, resVars, convVars,
                   num_rounds, tsc_vals, num_avail_cpus, num_probes, probes>>

\* the CPUs of a carousel of wtmlib_CalcTSCEnclosingRangeCPUSW: the base CPU
\* and one other
CarouselCpus == 2

\* wtmlib_CalcTSCDeltaRangeCPUSW on the samples of a carousel of two CPUs.
DoCalcTSCDeltaRangeCPUSW ==
    /\ ana_pc = "samples"
    /\ num_avail_cpus = CarouselCpus
    /\ AnaReturn(CalcTSCDeltaRangeCPUSWName,
                 CalcTSCDeltaRangeCPUSW(tsc_vals, num_rounds))

\* wtmlib_EvalTSCMonotonicityCPUSW on the samples of a carousel.
DoEvalTSCMonotonicityCPUSW ==
    /\ ana_pc = "samples"
    /\ AnaReturn(EvalTSCMonotonicityCPUSWName,
                 EvalTSCMonotonicityCPUSW(tsc_vals, num_avail_cpus, num_rounds))

\* wtmlib_CalcTSCDeltaRangeCOP on the probes of two CPUs.
DoCalcTSCDeltaRangeCOP ==
    /\ ana_pc = "probes"
    /\ num_avail_cpus = 2
    /\ LET F(g) == CalcTSCDeltaRangeCOP(probes, num_probes, g)
       IN  \E r \in Outcomes(F(NoMatch(num_probes, 2)),
                              {F(g) : g \in Garbage(num_probes, 2)}) :
              AnaReturn(CalcTSCDeltaRangeCOPName, r)

\* wtmlib_IsProbeSequenceMonotonic on the probes.
DoIsProbeSequenceMonotonic ==
    /\ ana_pc = "probes"
    /\ LET F(g) == IsProbeSequenceMonotonic(probes, num_probes,
                                            num_avail_cpus, g)
       IN  \E r \in Outcomes(F(NoMatch(num_probes, num_avail_cpus)),
                              {F(g) : g \in Garbage(num_probes, num_avail_cpus)}) :
              AnaReturn(IsProbeSequenceMonotonicName, r)

\* wtmlib_IsProbeSequenceMonotonic when a calloc() fails.
IsProbeSequenceMonotonicNoMem ==
    /\ ana_pc = "probes"
    /\ CheckTSCProbesConsistency(probes, num_avail_cpus, num_probes) = 0
    /\ AnaReturn(IsProbeSequenceMonotonicName, Result(WTMLIB_RET_GENERIC_ERR))

(***************************************************************************)
(* The conversion of TSC ticks to nanoseconds                              *)
(***************************************************************************)
\* A 64-bit value, or the product of two, is wider than an integer of the
\* model checker: an unsigned integer is the sequence of its digits in base
\* 2^15, the least significant first, without leading zeros.
LimbBits == 15
Base == 2 ^ LimbBits

RECURSIVE Big(_)
Big(n) == IF n = 0 THEN <<>> ELSE <<n % Base>> \o Big(n \div Base)

RECURSIVE Trim(_)
Trim(a) ==
    IF a # <<>> /\ a[Len(a)] = 0 THEN Trim(SubSeq(a, 1, Len(a) - 1)) ELSE a

Digit(a, i) == IF i <= Len(a) THEN a[i] ELSE 0

BigAdd(a, b) ==
    LET n == IF Len(a) < Len(b) THEN Len(b) ELSE Len(a)
        RECURSIVE From(_, _)
        From(i, c) ==
            IF i > n THEN (IF c = 0 THEN <<>> ELSE <<c>>)
            ELSE LET s == Digit(a, i) + Digit(b, i) + c
                 IN <<s % Base>> \o From(i + 1, s \div Base)
    IN From(1, 0)

\* a - b for a >= b
BigSub(a, b) ==
    LET RECURSIVE From(_, _)
        From(i, c) ==
            IF i > Len(a) THEN <<>>
            ELSE LET s == a[i] - Digit(b, i) - c
                 IN IF s < 0 THEN <<s + Base>> \o From(i + 1, 1)
                             ELSE <<s>> \o From(i + 1, 0)
    IN Trim(From(1, 0))

BigLess(a, b) ==
    LET RECURSIVE From(_)
        From(i) ==
            IF i = 0 THEN FALSE
            ELSE IF a[i] # b[i] THEN a[i] < b[i] ELSE From(i - 1)
    IN IF Len(a) # Len(b) THEN Len(a) < Len(b) ELSE From(Len(a))

BigLeq(a, b) == ~BigLess(b, a)

RECURSIVE BigMul(_, _)
BigMul(a, b) ==
    LET RECURSIVE Times(_, _)
        Times(i, c) ==
            IF i > Len(a) THEN (IF c = 0 THEN <<>> ELSE <<c>>)
            ELSE LET p == a[i] * b[1] + c
                 IN <<p % Base>> \o Times(i + 1, p \div Base)
    IN IF a = <<>> \/ b = <<>> THEN <<>>
       ELSE Trim(BigAdd(Times(1, 0), <<0>> \o BigMul(a, Tail(b))))

Pow2(k) ==
    [i \in 1 .. (k \div LimbBits + 1) |->
        IF i = k \div LimbBits + 1 THEN 2 ^ (k % LimbBits) ELSE 0]

\* a >> k
BigShr(a, k) ==
    LET r == k % LimbBits
        b == SubSeq(a, k \div LimbBits + 1, Len(a))
    IN Trim([i \in 1 .. Len(b) |->
                (b[i] \div (2 ^ r))
                + (Digit(b, i + 1) % (2 ^ r)) * (2 ^ (LimbBits - r))])

RECURSIVE AndLimb(_, _)
AndLimb(x, y) ==
    IF x = 0 \/ y = 0 THEN 0
    ELSE (x % 2) * (y % 2) + 2 * AndLimb(x \div 2, y \div 2)

\* a & b
BigAnd(a, b) ==
    Trim([i \in 1 .. (IF Len(a) < Len(b) THEN Len(a) ELSE Len(b)) |->
             AndLimb(a[i], b[i])])

\* the largest d in lo .. hi with b * d <= r
RECURSIVE QuotientDigit(_, _, _, _)
QuotientDigit(r, b, lo, hi) ==
    IF lo = hi THEN lo
    ELSE LET mid == (lo + hi + 1) \div 2
         IN IF BigLeq(BigMul(b, Big(mid)), r)
               THEN QuotientDigit(r, b, mid, hi)
               ELSE QuotientDigit(r, b, lo, mid - 1)

\* a / b for b > 0, by long division: digit i of a is brought down to the
\* remainder r of the digits above it
RECURSIVE DivFrom(_, _, _, _)
DivFrom(a, b, i, r) ==
    IF i = 0 THEN <<>>
    ELSE LET r1 == Trim(<<a[i]>> \o r)
             d == QuotientDigit(r1, b, 0, Base - 1)
         IN DivFrom(a, b, i - 1, BigSub(r1, BigMul(b, Big(d)))) \o <<d>>

BigDiv(a, b) == Trim(DivFrom(a, b, Len(a), <<>>))

\* the number written in decimal in groups of nine digits, the most
\* significant group first
RECURSIVE Dec(_)
Dec(groups) ==
    IF groups = <<>> THEN <<>>
    ELSE BigAdd(BigMul(Dec(SubSeq(groups, 1, Len(groups) - 1)), Big(1000000000)),
                Big(groups[Len(groups)]))

\* uint64_t has 64 bits; the conversion is also run on words of
\* ScaledWordBits bits, where every rate and every tick count is tried, with
\* a second of ScaledNsecsPerSec nanoseconds.
Uint64Bits == 64
WordBits == {ScaledWordBits, Uint64Bits}
NsecsPerSec(w) == IF w = Uint64Bits THEN Big(1000000000) ELSE Big(ScaledNsecsPerSec)

\* UINT64_MAX of a word of w bits, and a value cut to the word
UMax(w) == BigSub(Pow2(w), <<1>>)
Wrap(a, w) == BigAnd(a, UMax(w))

NoParams ==
    [mult |-> <<>>, shift |-> 0, nsecs_per_tsc_modulus |-> <<>>,
     tsc_remainder_length |-> 0, tsc_remainder_bitmask |-> <<>>]

\* the loop at 2994-2998: factor_bound is halved until it is 1 or 0
FactorShiftRoundedUp(factor_bound, shift) ==
    shift + IF BigLess(<<1>>, factor_bound) THEN LimbBits * Len(factor_bound) ELSE 0

RECURSIVE FactorShift(_, _)
FactorShift(factor_bound, shift) ==
    IF BigLess(<<1>>, factor_bound)
       THEN FactorShift(BigShr(factor_bound, 1), shift + 1)
       ELSE shift

\* the same loop run while the shifted value is not 0: the length of the
\* smallest power of 2 above tsc_worth_of_modulus
RECURSIVE RemainderLengthRoundedUp(_, _)
RemainderLengthRoundedUp(tsc_worth_of_modulus, tsc_remainder_length) ==
    IF BigLeq(<<1>>, BigShr(tsc_worth_of_modulus, tsc_remainder_length))
       THEN RemainderLengthRoundedUp(tsc_worth_of_modulus, tsc_remainder_length + 1)
       ELSE tsc_remainder_length

\* the loop at 3011-3014
RECURSIVE RemainderLength(_, _)
RemainderLength(tsc_worth_of_modulus, tsc_remainder_length) ==
    IF BigLess(<<1>>, BigShr(tsc_worth_of_modulus, tsc_remainder_length))
       THEN RemainderLength(tsc_worth_of_modulus, tsc_remainder_length + 1)
       ELSE tsc_remainder_length

\* wtmlib_CalcTSCToNsecConversionParams on words of w bits: the value
\* returned and the parameters stored, or killed: the division by a
\* tsc_worth_of_modulus of zero at 2987 ends the process (SIGFPE).
CalcTSCToNsecConversionParams(rate, w) ==
    LET M == Big(WTMLIB_TIME_CONVERSION_MODULUS)
        tsc_worth_of_modulus == Wrap(BigMul(M, rate), w)
        mult_bound == BigDiv(UMax(w), tsc_worth_of_modulus)
        factor_bound == BigDiv(Wrap(BigMul(mult_bound, rate), w), NsecsPerSec(w))
        shift == FactorShift(factor_bound, 0)
        factor == Wrap(Pow2(shift), w)
        mult == BigDiv(Wrap(BigMul(factor, NsecsPerSec(w)), w), rate)
        tsc_remainder_length == RemainderLength(tsc_worth_of_modulus, 0)
        tsc_modulus == Wrap(Pow2(tsc_remainder_length), w)
    IN IF BigLess(BigDiv(UMax(w), M), rate)
          THEN [ret |-> WTMLIB_RET_GENERIC_ERR, killed |-> FALSE,
                params |-> NoParams]
       ELSE IF tsc_worth_of_modulus = <<>>
          THEN [ret |-> 0, killed |-> TRUE, params |-> NoParams]
       ELSE [ret |-> 0, killed |-> FALSE,
             params |->
                [mult |-> mult,
                 shift |-> shift,
                 nsecs_per_tsc_modulus |->
                     BigShr(Wrap(BigMul(tsc_modulus, mult), w), shift),
                 tsc_remainder_length |-> tsc_remainder_length,
                 tsc_remainder_bitmask |-> BigSub(tsc_modulus, <<1>>)]]

\* the two products of WTMLIB_TSC_TO_NSEC, before they are cut to the word
ModulusProduct(ticks, cp) ==
    BigMul(BigShr(ticks, cp.tsc_remainder_length), cp.nsecs_per_tsc_modulus)

RemainderProduct(ticks, cp) ==
    BigMul(BigAnd(ticks, cp.tsc_remainder_bitmask), cp.mult)

\* WTMLIB_TSC_TO_NSEC on words of w bits
TscToNsecByRemainderOnly(ticks, cp, w) ==
    BigShr(Wrap(BigMul(ticks, cp.mult), w), cp.shift)

WTMLIB_TSC_TO_NSEC(ticks, cp, w) ==
    Wrap(BigAdd(Wrap(ModulusProduct(ticks, cp), w),
                BigShr(Wrap(RemainderProduct(ticks, cp), w), cp.shift)), w)

\* The rates tried: every value of a scaled word; of 64-bit words, rates
\* from one tick per second to the largest rate accepted and beyond.
Rates(w) ==
    IF w = Uint64Bits
       THEN {<<>>, <<1>>, Big(1000), Big(500000000), Big(999999999),
             Big(1000000000), Big(1000000001), Big(2000000000),
             Dec(<<3, 333000000>>), Dec(<<3, 333333333>>), Dec(<<5, 0>>),
             Dec(<<50, 0>>), Dec(<<1000, 0>>), Dec(<<100000000, 0>>),
             BigDiv(UMax(w), Big(WTMLIB_TIME_CONVERSION_MODULUS)),
             BigAdd(BigDiv(UMax(w), Big(WTMLIB_TIME_CONVERSION_MODULUS)), <<1>>),
             UMax(w)}
       ELSE {Big(n) : n \in 0 .. (2 ^ w - 1)}

\* The periods, in seconds, whose worth of ticks is converted on 64-bit
\* words.
Periods ==
    {<<>>, <<1>>, Big(7), Big(60), Big(3599), Big(3600), Big(86400),
     Big(31536000), Dec(<<20, 0>>)}

\* The tick counts on the two sides of the first and of the second boundary
\* of the TSC modulus of a rate: the largest remainder and the whole
\* modulus, alone and after one modulus.
ModulusBoundary(rate, w) ==
    LET mask == CalcTSCToNsecConversionParams(rate, w).params.tsc_remainder_bitmask
        tsc_modulus == BigAdd(mask, <<1>>)
    IN  {mask, tsc_modulus, BigAdd(tsc_modulus, mask), BigAdd(tsc_modulus, tsc_modulus)}

\* The tick counts tried for a rate.
Ticks(rate, w) ==
    IF w = Uint64Bits
       THEN {t \in {BigMul(rate, S) : S \in Periods} \cup ModulusBoundary(rate, w) :
                BigLeq(t, UMax(w))}
            \cup {UMax(w), BigShr(UMax(w), 1)}
       ELSE {Big(n) : n \in 0 .. (2 ^ w - 1)}

\* wtmlib_CalcTSCToNsecConversionParams is called with the measured rate.
DoCalcTSCToNsecConversionParams ==
    /\ conv_pc = "calc"
    /\ LET r == CalcTSCToNsecConversionParams(tsc_per_sec, word_bits)
       IN /\ conv_ret' = r.ret
          /\ conv_params' = r.params
          /\ conv_pc' = IF r.killed THEN "killed"
                        ELSE IF r.ret = 0 THEN "params" ELSE "failed"
    /\ UNCHANGED <<casVars, affVars, resVars, anaVars,
                   word_bits, tsc_per_sec, tsc_ticks, nsecs>>

\* WTMLIB_TSC_TO_NSEC is applied to a tick count with the parameters stored.
DoTscToNsec ==
    /\ conv_pc = "params"
    /\ \E t \in Ticks(tsc_per_sec, word_bits) :
          /\ tsc_ticks' = t
          /\ nsecs' = WTMLIB_TSC_TO_NSEC(t, conv_params, word_bits)
    /\ conv_pc' = "converted"
    /\ UNCHANGED <<casVars, affVars, resVars, anaVars,
                   word_bits, tsc_per_sec, conv_ret, conv_params>>

(***************************************************************************)
(* The specifications                                                      *)
(***************************************************************************)
\* wtmlib_CollectCASOrderedTSCProbes is entered with k threads to start and
\* P probes for each.
CasStart(k, P) ==
    /\ num_threads = k
    /\ probes_count = P
    /\ seq_counter = 0
    /\ ready_counter = 0
    /\ tsc_probes = [t \in ThreadIds |-> <<>>]
    /\ tsc = 0
    /\ pc = [t \in ThreadIds |-> "none"]
    /\ seq_num = [t \in ThreadIds |-> 0]
    /\ tsc_val = [t \in ThreadIds |-> 0]
    /\ thread_ret = [t \in ThreadIds |-> 0]
    /\ cancel_pending = [t \in ThreadIds |-> FALSE]
    /\ ready_incs = [t \in ThreadIds |-> 0]
    /\ sup_pc = "create"
    /\ ci = 0
    /\ num_started = num_threads
    /\ ind = 0
    /\ time_passed = 0
    /\ time_to_wait = 0
    /\ is_cancelled = FALSE
    /\ is_timeout = FALSE
    /\ thread_failed = 0
    /\ detach_attempted = 0
    /\ wait_ret = 0
    /\ ret = 0
    /\ probes_analysed = FALSE
    /\ run_budget_expired = FALSE
    /\ hist = [t \in ThreadIds |-> <<>>]

\* Function f is entered by a thread whose affinity mask is mask.
AffStart(f, mask) ==
    /\ fn = f
    /\ apc = IF f = GetTSCToNsecConversionParams THEN "conv_compute" ELSE "getstate"
    /\ affinity = mask
    /\ ps_state = InitProcAndSysState
    /\ cpu_id = -1
    /\ cpu_sets = <<>>
    /\ car_caller = "none"
    /\ car_round = 0
    /\ car_ind = 0
    /\ aret = 0
    /\ out_written = {}
    /\ mask_at_entry = mask
    /\ aff_changed = FALSE
    /\ restore_called = FALSE
    /\ restore_failed = "none"
    /\ car_log = <<>>
    /\ l_bound = INT64_MAX
    /\ u_bound = INT64_MIN
    /\ tsc_range_length = -1
    /\ is_monotonic = FALSE
    /\ tsc_range_length_ret = <<>>
    /\ is_monotonic_ret = <<>>

\* No analysis is applied.
AnaIdle ==
    /\ ana_fn = "none"
    /\ ana_pc = "idle"
    /\ num_rounds = 0
    /\ tsc_vals = <<>>
    /\ num_avail_cpus = 0
    /\ num_probes = 0
    /\ probes = <<>>
    /\ ana_res = <<>>

\* No conversion is made.
ConvIdle ==
    /\ word_bits = Uint64Bits
    /\ tsc_per_sec = <<>>
    /\ conv_pc = "idle"
    /\ conv_ret = 0
    /\ conv_params = NoParams
    /\ tsc_ticks = <<>>
    /\ nsecs = <<>>

Init ==
    /\ \E k \in 1 .. MaxThreads, P \in 1 .. MaxProbes :
          k * P <= MaxSeqNums /\ CasStart(k, P)
    /\ AffStart(EvalTSCReliabilityCPUSW, Cpus)
    /\ AnaIdle
    /\ ConvIdle

Next ==
    \/ SupStep
    \/ \E t \in ThreadIds : ThreadStep(t)

Spec == Init /\ [][Next]_vars

\* The prober with every created thread scheduled again and again: a thread
\* that can execute its next statement eventually does.  Nothing is assumed
\* of the supervisor.
SpecFair == Spec /\ \A t \in ThreadIds : WF_vars(ThreadStep(t))

\* wtmlib_WaitForTSCProbeThreads( thread_descs, n, n != num_threads, ...) is
\* entered: n of k threads were created, and they were cancelled by the
\* caller if n is not k.  The threads run while the function waits.
WaitForStart(k, P, n) ==
    /\ num_threads = k
    /\ probes_count = P
    /\ seq_counter = 0
    /\ ready_counter = 0
    /\ tsc_probes = [t \in ThreadIds |-> <<>>]
    /\ tsc = 0
    /\ pc = [t \in ThreadIds |-> IF t < n THEN "pin" ELSE "none"]
    /\ seq_num = [t \in ThreadIds |-> 0]
    /\ tsc_val = [t \in ThreadIds |-> 0]
    /\ thread_ret = [t \in ThreadIds |-> 0]
    /\ cancel_pending = [t \in ThreadIds |-> t < n /\ n # k]
    /\ ready_incs = [t \in ThreadIds |-> 0]
    /\ sup_pc = "wait1"
    /\ ci = n
    /\ num_started = n
    /\ ind = 0
    /\ time_passed = 0
    /\ time_to_wait = IF n # k THEN WTMLIB_TSC_PROBE_WAIT_AFTER_CANCEL
                                ELSE WTMLIB_TSC_PROBE_WAIT_TIME
    /\ is_cancelled = (n # k)
    /\ is_timeout = FALSE
    /\ thread_failed = 0
    /\ detach_attempted = 0
    /\ wait_ret = 0
    /\ ret = 0
    /\ probes_analysed = FALSE
    /\ run_budget_expired = FALSE
    /\ hist = [t \in ThreadIds |-> IF t >= n THEN <<>>
                                    ELSE IF n # k THEN <<EvCreate, EvCancel>>
                                    ELSE <<EvCreate>>]

InitWaitFor ==
    /\ \E k \in 1 .. MaxThreads, P \in 1 .. MaxProbes, n \in 0 .. MaxThreads :
          k * P <= MaxSeqNums /\ n <= k /\ WaitForStart(k, P, n)
    /\ AffStart(EvalTSCReliabilityCPUSW, Cpus)
    /\ AnaIdle
    /\ ConvIdle

\* wtmlib_WaitForTSCProbeThreads up to its return, and the threads.
NextWaitFor ==
    \/ JoinOk
    \/ JoinBusy
    \/ JoinError
    \/ WaitEnd1
    \/ WaitEnd2
    \/ DetachRest
    \/ \E t \in ThreadIds : ThreadStep(t)

SpecWaitFor == InitWaitFor /\ [][NextWaitFor]_vars

\* The steps of wtmlib_WaitForTSCProbeThreads.
WaitForStep ==
    \/ JoinOk
    \/ JoinBusy
    \/ JoinError
    \/ WaitEnd1
    \/ WaitEnd2
    \/ DetachRest

\* The calling thread keeps running (pthread_tryjoin_np(), sleep(),
\* pthread_cancel() and pthread_detach() return); nothing is assumed of the
\* probe threads.
SpecWaitForFair == SpecWaitFor /\ WF_vars(WaitForStep)

InitAff ==
    /\ \E f \in {EvalTSCReliabilityCPUSW, EvalTSCReliabilityCOP,
                  GetTSCToNsecConversionParams} :
          \E mask \in (SUBSET Cpus) \ {{}} : AffStart(f, mask)
    /\ CasStart(1, 1)
    /\ AnaIdle
    /\ ConvIdle

NextAff == AffStep

SpecAff == InitAff /\ [][NextAff]_vars

\* The probes of thread c in a sequence of N probes: own[q] is the thread
\* that won sequence number q and val[q] the TSC value it read.
RECURSIVE ProbesOf(_, _, _, _, _)
ProbesOf(own, val, c, q, N) ==
    IF q = N THEN <<>>
    ELSE (IF own[q] = c THEN <<[tsc_val |-> val[q], seq_num |-> q]>>
                        ELSE <<>>)
         \o ProbesOf(own, val, c, q + 1, N)

\* The samples of a carousel of k CPUs and R rounds: R + 1 of the base CPU
\* and R of every other CPU, any TSC values.  The carousel is that of two
\* CPUs, or that of wtmlib_EvalTSCMonotonicityCPUSW on one or two CPUs.
InitCarousel ==
    /\ \E k \in 1 .. CarouselCpus, R \in 1 .. MaxRounds :
          /\ num_avail_cpus = k
          /\ num_rounds = R
          /\ tsc_vals \in [1 .. k -> UNION {[1 .. m -> Uint64] : m \in {R, R + 1}}]
          /\ Len(tsc_vals[1]) = R + 1
          /\ \A c \in 2 .. k : Len(tsc_vals[c]) = R
    /\ ana_fn = "none"
    /\ ana_pc = "samples"
    /\ num_probes = 0
    /\ probes = <<>>
    /\ ana_res = <<>>

\* The probes that k threads collected, n each: the sequence numbers
\* 0 .. k * n - 1, every one won by one thread, any TSC values.
InitProbes ==
    /\ \E k \in 1 .. MaxProbedCpus, n \in 1 .. MaxNumProbes :
          /\ num_avail_cpus = k
          /\ num_probes = n
          /\ \E own \in [0 .. (k * n - 1) -> 0 .. (k - 1)],
                val \in [0 .. (k * n - 1) -> Uint64] :
                /\ \A c \in 0 .. (k - 1) :
                      Cardinality({q \in 0 .. (k * n - 1) : own[q] = c}) = n
                /\ probes = [c \in 1 .. k |-> ProbesOf(own, val, c - 1, 0, k * n)]
    /\ ana_fn = "none"
    /\ ana_pc = "probes"
    /\ num_rounds = 0
    /\ tsc_vals = <<>>
    /\ ana_res = <<>>

InitOutside ==
    /\ CasStart(1, 1)
    /\ AffStart(EvalTSCReliabilityCPUSW, Cpus)
    /\ ConvIdle

NextCarousel ==
    \/ DoCalcTSCDeltaRangeCPUSW
    \/ DoEvalTSCMonotonicityCPUSW

InitSamples == InitCarousel /\ InitOutside

SpecCarousel == InitSamples /\ [][NextCarousel]_vars

NextProbes ==
    \/ DoCalcTSCDeltaRangeCOP
    \/ DoIsProbeSequenceMonotonic
    \/ IsProbeSequenceMonotonicNoMem

InitSequence == InitProbes /\ InitOutside

SpecProbes == InitSequence /\ [][NextProbes]_vars

InitAna == (InitCarousel \/ InitProbes) /\ InitOutside

NextAna ==
    \/ DoCalcTSCDeltaRangeCPUSW
    \/ DoEvalTSCMonotonicityCPUSW
    \/ DoCalcTSCDeltaRangeCOP
    \/ DoIsProbeSequenceMonotonic
    \/ IsProbeSequenceMonotonicNoMem

SpecAna == InitAna /\ [][NextAna]_vars

\* A rate is measured and wtmlib_CalcTSCToNsecConversionParams is about to
\* be called with it.
InitConv ==
    /\ \E w \in WordBits :
          /\ word_bits = w
          /\ tsc_per_sec \in Rates(w)
    /\ conv_pc = "calc"
    /\ conv_ret = 0
    /\ conv_params = NoParams
    /\ tsc_ticks = <<>>
    /\ nsecs = <<>>
    /\ CasStart(1, 1)
    /\ AffStart(GetTSCToNsecConversionParams, Cpus)
    /\ AnaIdle

NextConv ==
    \/ DoCalcTSCToNsecConversionParams
    \/ DoTscToNsec

SpecConv == InitConv /\ [][NextConv]_vars


(***************************************************************************)
(* Properties of the CAS-ordered prober (specification Spec)               *)
(***************************************************************************)
Started == 0 .. (num_threads - 1)

\* The slots <<t, j>> of the probe arrays that hold a probe.
ProbeSlots == UNION {{<<t, j>> : j \in 1 .. Len(tsc_probes[t])} : t \in ThreadIds}

ProbeAt(sl) == tsc_probes[sl[1]][sl[2]]

\* All num_threads threads ran to completion.
AllCompleted == \A t \in Started : pc[t] = "done" /\ thread_ret[t] = 0

Count(h, ev) == Cardinality({i \in 1 .. Len(h) : h[i] = ev})

Joined(t) == Count(hist[t], EvJoin) > 0

\* C1: when all k = num_threads threads of a run with P = probes_count have
\* completed, each sequence number of 0 .. k*P-1 is recorded exactly once over
\* all the probe arrays (none missing, none twice), and each array holds
\* exactly P probes.  At any moment no sequence number is recorded twice.
C1_SeqNumsDenseAndUnique ==
    /\ \A a, b \in ProbeSlots : ProbeAt(a).seq_num = ProbeAt(b).seq_num => a = b
    /\ AllCompleted =>
          /\ \A t \in Started : Len(tsc_probes[t]) = probes_count
          /\ \A s \in 0 .. (num_threads * probes_count - 1) :
                Cardinality({sl \in ProbeSlots : ProbeAt(sl).seq_num = s}) = 1

\* C1 happens: two threads completed two probes each, interleaved, thread 0
\* holding the first and the last sequence number.
C1_Witness ==
    /\ num_threads = 2 /\ probes_count = 2
    /\ AllCompleted
    /\ tsc_probes[0][1].seq_num = 0
    /\ tsc_probes[0][2].seq_num = 3

\* C2: the TSC read recorded with sequence number s was made before the read
\* recorded with s' whenever s < s', and each recorded read was made while
\* the counter held the probe's own sequence number: after the load that
\* observed s and before the compare-and-swap that moved s to s + 1.  (The
\* clock ticks with every update of the counter: a read in that window
\* returns s.)
C2_ReadsOrderedBySeqNum ==
    /\ \A a, b \in ProbeSlots :
          ProbeAt(a).seq_num < ProbeAt(b).seq_num => ProbeAt(a).tsc_val < ProbeAt(b).tsc_val
    /\ \A a \in ProbeSlots : ProbeAt(a).tsc_val = ProbeAt(a).seq_num

\* C2 happens: the two threads' probes alternate, 0 and 2 on thread 1, 1 on
\* thread 0, thread 0 having lost a compare-and-swap on the way.
C2_Witness ==
    /\ Len(tsc_probes[1]) = 2 /\ Len(tsc_probes[0]) >= 1
    /\ tsc_probes[1][1].seq_num = 0
    /\ tsc_probes[0][1].seq_num = 1
    /\ tsc_probes[1][2].seq_num = 2

\* C3: a thread reads the TSC only after every one of the num_threads
\* threads pinned itself and incremented the ready counter; each thread
\* increments the counter exactly once, and the counter never exceeds
\* num_threads.
C3_StartBarrier ==
    /\ ready_counter <= num_threads
    /\ \A t \in ThreadIds : ready_incs[t] <= 1
    /\ ready_counter = Cardinality({t \in ThreadIds : ready_incs[t] = 1})
    /\ \A t \in ThreadIds :
          (pc[t] \in {"tsc", "cas"} \/ Len(tsc_probes[t]) > 0)
             => \A u \in Started : ready_incs[u] = 1 /\ pc[u] \notin {"none", "pin", "inc"}

\* C3 happens: one of two threads is about to read the TSC.
C3_Witness ==
    /\ num_threads = 2
    /\ ready_counter = 2
    /\ \E t \in Started : pc[t] = "tsc" /\ Len(tsc_probes[t]) = 0

\* The precondition of C4: the run budget expired, or a joined thread's exit
\* value is not 0.
RunTimedOutOrThreadFailed ==
    \/ run_budget_expired
    \/ \E t \in ThreadIds : Joined(t) /\ thread_ret[t] # 0

\* C4: if the first wait hit its run budget, or some joined thread returned a
\* non-zero status, then wtmlib_WaitForTSCProbeThreads returns
\* WTMLIB_RET_GENERIC_ERR, wtmlib_CollectCASOrderedTSCProbes returns non-zero
\* and the caller never analyses the probes.
C4_FailedRunIsNotAnalysed ==
    RunTimedOutOrThreadFailed =>
       /\ sup_pc \in {"collect_out", "caller", "done"} => wait_ret = WTMLIB_RET_GENERIC_ERR
       /\ sup_pc \in {"caller", "done"} => ret # 0
       /\ ~probes_analysed

\* C4 happens: the run budget expired with probes partly collected, a thread
\* that failed to pin was joined, and the caller returned.
C4_Witness ==
    /\ sup_pc = "done"
    /\ run_budget_expired
    /\ \E t \in Started : Joined(t) /\ thread_ret[t] = WTMLIB_RET_GENERIC_ERR
    /\ ret = WTMLIB_RET_GENERIC_ERR
    /\ ~probes_analysed

\* pthread_create() failed for thread ci, 0 < ci < num_threads, and the
\* supervisor went on.
CreateFailedAt == sup_pc # "create" /\ 0 < ci /\ ci < num_threads

\* C5: when pthread_create() fails at index i, 0 < i < num_threads, a cancel
\* request is sent exactly once to each of the threads 0 .. i-1, num_started
\* stays i, the cancel loop terminates, and the supervisor waits for exactly
\* those i threads.
C5_CancelLoopCancelsEachStartedOnce ==
    CreateFailedAt =>
       /\ num_started = ci
       /\ sup_pc # "cancel_loop_forever"
       /\ \A j \in 0 .. (ci - 1) : Count(hist[j], EvCancel) <= 1
       /\ sup_pc # "cancel_loop" => \A j \in 0 .. (ci - 1) : Count(hist[j], EvCancel) = 1

\* The event a thread's detach is logged with, whoever issued it.
AnyDetach(h) == [i \in 1 .. Len(h) |-> IF h[i] = EvDetachOnJoinError THEN EvDetach ELSE h[i]]

\* Histories of a thread in a run whose first wait timed out.
HistJoinedInTime == <<EvCreate, EvJoin>>
HistDetachedOnJoinError == <<EvCreate, EvDetachOnJoinError>>
HistCancelled == <<EvCreate, EvCancel>>
HistCancelledJoined == <<EvCreate, EvCancel, EvJoin>>
HistCancelledDetached == <<EvCreate, EvCancel, EvDetach>>

\* The first wait of a run with all threads started timed out.
TimedOutRun == run_budget_expired /\ ~is_cancelled /\ sup_pc # "wait1"

\* C6 as it is stated: after the timeout every thread is either joined
\* before the timeout, or cancelled exactly once, and then joined within
\* the cancel budget or detached after it; the second wait lasts at most
\* WTMLIB_TSC_PROBE_WAIT_AFTER_CANCEL; no joined thread is detached.
C6_AsStated ==
    TimedOutRun =>
       /\ sup_pc = "wait2" =>
             /\ time_to_wait = WTMLIB_TSC_PROBE_WAIT_AFTER_CANCEL
             /\ time_passed <= WTMLIB_TSC_PROBE_WAIT_AFTER_CANCEL
             /\ \A t \in Started : AnyDetach(hist[t]) \in
                   {HistJoinedInTime, HistCancelled, HistCancelledJoined,
                    HistCancelledDetached}
       /\ sup_pc \in {"collect_out", "caller", "done"} =>
             \A t \in Started : AnyDetach(hist[t]) \in
                   {HistJoinedInTime, HistCancelledJoined, HistCancelledDetached}

\* C6, amended: as stated, but for the threads for which pthread_tryjoin_np()
\* failed with an error other than EBUSY: such a thread is detached at once,
\* before the timeout without ever being cancelled, or in the second wait
\* after its one cancel request.  The threads not joined when the second wait
\* ends are detached only then.
C6_TimeoutCancelWaitDetach ==
    TimedOutRun =>
       /\ sup_pc = "wait2" =>
             /\ time_to_wait = WTMLIB_TSC_PROBE_WAIT_AFTER_CANCEL
             /\ time_passed <= WTMLIB_TSC_PROBE_WAIT_AFTER_CANCEL
             /\ \A t \in Started : hist[t] \in
                   {HistJoinedInTime, HistDetachedOnJoinError, HistCancelled,
                    HistCancelledJoined, HistCancelled \o <<EvDetachOnJoinError>>}
       /\ sup_pc \in {"collect_out", "caller", "done"} =>
             \A t \in Started : hist[t] \in
                   {HistJoinedInTime, HistDetachedOnJoinError, HistCancelledJoined,
                    HistCancelled \o <<EvDetachOnJoinError>>, HistCancelledDetached}

\* C6 happens: after the timeout one thread was joined within the cancel
\* budget and the other, still running when the budget ended, was detached.
C6_Witness ==
    /\ sup_pc = "done"
    /\ TimedOutRun
    /\ hist[0] = HistCancelledJoined
    /\ hist[1] = HistCancelledDetached

\* A thread's history follows the lifecycle; detachOnError tells whether a
\* failed pthread_tryjoin_np() may detach a thread that is not cancelled.
FollowsLifecycle(h, detachOnError) ==
    \/ h = <<>>
    \/ /\ h[1] = EvCreate
       /\ \A i \in 2 .. Len(h) :
             /\ h[i] # EvCreate
             /\ h[i] \in {EvJoin, EvDetach, EvDetachOnJoinError} => i = Len(h)
             /\ h[i] = EvCancel => h[i - 1] \in {EvCreate, EvCancel}
             /\ h[i] = EvDetach => h[i - 1] = EvCancel
             /\ h[i] = EvDetachOnJoinError /\ ~detachOnError => h[i - 1] = EvCancel

\* C7 as it is stated: a thread is created, then joined, or cancelled and
\* then joined or detached; it is never detached without a cancel request
\* before, and nothing follows a join or a detach.
C7_AsStated == \A t \in ThreadIds : FollowsLifecycle(hist[t], FALSE)

\* C7, amended: the transitions of a thread are CREATED -> RUNNING ->
\* JOINED, RUNNING -> CANCEL_REQUESTED -> JOINED and CANCEL_REQUESTED ->
\* DETACHED, and one more: RUNNING -> DETACHED when pthread_tryjoin_np()
\* fails with an error other than EBUSY.  The detach that ends
\* wtmlib_WaitForTSCProbeThreads never falls on a thread that is not
\* cancelled; JOINED and DETACHED are final.
C7_ThreadLifecycle == \A t \in ThreadIds : FollowsLifecycle(hist[t], TRUE)

\* C7 happens: one thread went RUNNING -> DETACHED on a join error, the other
\* RUNNING -> CANCEL_REQUESTED -> DETACHED.
C7_Witness ==
    /\ \E t \in Started : hist[t] = HistDetachedOnJoinError
    /\ \E t \in Started : hist[t] = HistCancelledDetached


(***************************************************************************)
(* Properties of the affinity handling (specification SpecAff)             *)
(***************************************************************************)
Returned == apc = "returned"

\* C8: a function that changed the affinity of the calling thread has run
\* wtmlib_RestoreInitialProcState when it returns, on the success path and
\* on every error path.
C8_RestoreRunsOnEveryExit == Returned /\ aff_changed => restore_called

\* C9: when the function returns 0, the affinity mask of the calling thread
\* is the mask wtmlib_GetProcAndSystemState captured at entry, whatever pins
\* were made in between.
C9_MaskRestoredOnSuccess ==
    Returned /\ aret = 0 =>
       /\ affinity = ps_state.initial_cpu_set
       /\ affinity = mask_at_entry

\* C9 happens: wtmlib_GetTSCToNsecConversionParams returned 0 to a thread
\* allowed on every CPU, after it had pinned the thread to single CPUs.
C9_Witness ==
    /\ Returned /\ aret = 0
    /\ fn = GetTSCToNsecConversionParams
    /\ mask_at_entry = Cpus
    /\ aff_changed
    /\ out_written = Outputs(fn)

\* C10: when the computations succeeded and wtmlib_RestoreInitialProcState
\* failed (its allocation, the pin to initial_cpu or the widening to
\* initial_cpu_set), the function returns WTMLIB_RET_GENERIC_ERR, and
\* nothing is ever written to the output pointers.
C10_RestoreFailureDiscardsResults ==
    restore_failed # "none" =>
       /\ out_written = {}
       /\ apc = "returned"
       /\ aret = WTMLIB_RET_GENERIC_ERR

\* C10 happens: wtmlib_EvalTSCReliabilityCPUSW returned after the widening
\* to a two-CPU initial set failed, the thread left on the initial CPU.
C10_Witness ==
    /\ Returned
    /\ fn = EvalTSCReliabilityCPUSW
    /\ restore_failed = "widen"
    /\ Cardinality(ps_state.initial_cpu_set) = 2
    /\ affinity = {ps_state.initial_cpu}

(***************************************************************************)
(* Properties of the public functions (specification SpecAff)              *)
(***************************************************************************)
\* C11: on every return with a non-zero code the memory behind the output
\* pointers is as it was at entry, and the results are written all
\* together, and only by a call that returns 0.
C11_ResultsOnlyOnSuccess ==
    /\ out_written \in {{}, Outputs(fn)}
    /\ out_written # {} => (Returned /\ aret = 0)
    /\ (Returned /\ aret # 0) =>
          /\ out_written = {}
          /\ tsc_range_length_ret = <<>>
          /\ is_monotonic_ret = <<>>
    /\ (Returned /\ aret = 0) => out_written = Outputs(fn)

\* wtmlib_EvalTSCReliabilityCOP has computed the enclosing range, the
\* monotonicity evaluation ends with "poor statistics", and nothing is
\* written.
C11_Witness ==
    /\ fn = EvalTSCReliabilityCOP
    /\ Returned
    /\ aret = WTMLIB_RET_POOR_STAT
    /\ tsc_range_length # -1
    /\ out_written = {}

\* C12: each public function returns only its documented codes:
\* wtmlib_EvalTSCReliabilityCPUSW 0, WTMLIB_RET_TSC_INCONSISTENCY or
\* WTMLIB_RET_GENERIC_ERR (never WTMLIB_RET_POOR_STAT),
\* wtmlib_EvalTSCReliabilityCOP one of the four codes,
\* wtmlib_GetTSCToNsecConversionParams 0, WTMLIB_RET_TSC_INCONSISTENCY or
\* WTMLIB_RET_GENERIC_ERR.
C12_DocumentedReturnCodes ==
    Returned =>
       /\ fn = EvalTSCReliabilityCPUSW =>
             aret \in {0, WTMLIB_RET_TSC_INCONSISTENCY, WTMLIB_RET_GENERIC_ERR}
       /\ fn = EvalTSCReliabilityCOP =>
             aret \in {0, WTMLIB_RET_TSC_INCONSISTENCY, WTMLIB_RET_POOR_STAT,
                       WTMLIB_RET_GENERIC_ERR}
       /\ fn = GetTSCToNsecConversionParams =>
             aret \in {0, WTMLIB_RET_TSC_INCONSISTENCY, WTMLIB_RET_GENERIC_ERR}

\* wtmlib_EvalTSCReliabilityCPUSW returns WTMLIB_RET_TSC_INCONSISTENCY from
\* the delta range of the second carousel.
C12_Witness ==
    /\ fn = EvalTSCReliabilityCPUSW
    /\ Returned
    /\ aret = WTMLIB_RET_TSC_INCONSISTENCY
    /\ car_caller = "range"
    /\ l_bound <= u_bound

\* C13: with exactly one CPU in the caller's affinity mask, a successful
\* wtmlib_EvalTSCReliabilityCPUSW and a successful
\* wtmlib_EvalTSCReliabilityCOP report tsc_range_length = 0 and
\* is_monotonic = true.
C13_SingleCpuShortCircuits ==
    ( /\ Returned
      /\ aret = 0
      /\ fn \in {EvalTSCReliabilityCPUSW, EvalTSCReliabilityCOP}
      /\ Cardinality(mask_at_entry) = 1 ) =>
       /\ tsc_range_length_ret = <<0>>
       /\ is_monotonic_ret = <<TRUE>>

(***************************************************************************)
(* Properties of the analysis of samples (specifications SpecCarousel,     *)
(* SpecProbes, SpecAna)                                                    *)
(***************************************************************************)
\* The analysis f has returned.
AnaDone(f) == ana_pc = "done" /\ ana_fn = f

\* The codes that the analyses return are those that the public functions
\* are taken to receive from them.
AnalysisCodes ==
    (ana_pc \in {"done", "nomem"} /\ ana_res.ret # 0)
    => /\ ana_fn = CalcTSCDeltaRangeCPUSWName
             => ana_res.ret \in DeltaRangeCPUSWCodes
       /\ ana_fn = EvalTSCMonotonicityCPUSWName
             => ana_res.ret = WTMLIB_RET_TSC_INCONSISTENCY
       /\ ana_fn = CalcTSCDeltaRangeCOPName
             => ana_res.ret \in DeltaRangeCOPCodes
       /\ ana_fn = IsProbeSequenceMonotonicName
             => ana_res.ret \in MonotonicityCOPCodes

\* The ranges that the analyses return are those that the public functions
\* are taken to receive from them.
AnalysisRanges ==
    (/\ ana_pc = "done"
     /\ ana_fn \in {CalcTSCDeltaRangeCPUSWName, CalcTSCDeltaRangeCOPName}
     /\ ana_res.ret = 0)
    => <<ana_res.delta_min, ana_res.delta_max>> \in DeltaRanges

\* C14: whenever wtmlib_CalcTSCDeltaRangeCPUSW or wtmlib_CalcTSCDeltaRangeCOP
\* returns 0, the range it returns has delta_min <= delta_max with both
\* bounds in -INT64_MAX .. INT64_MAX; and on every path of the two functions
\* the assertions bound_min <= bound_max and d_min <= d_max hold.
C14_DeltaRangeWellFormed ==
    (AnaDone(CalcTSCDeltaRangeCPUSWName) \/ AnaDone(CalcTSCDeltaRangeCOPName))
    => /\ ana_res.asserts_ok
       /\ ana_res.ret = 0 =>
             /\ ana_res.written
             /\ ana_res.delta_min <= ana_res.delta_max
             /\ ana_res.delta_min \in (0 - INT64_MAX) .. INT64_MAX
             /\ ana_res.delta_max \in (0 - INT64_MAX) .. INT64_MAX

\* wtmlib_CalcTSCDeltaRangeCOP has returned 0 and a range that is neither a
\* point nor everything, from probes of which none was read out of bounds.
C14_Witness ==
    /\ AnaDone(CalcTSCDeltaRangeCOPName)
    /\ ana_res.ret = 0
    /\ ~ana_res.read_oob
    /\ ana_res.delta_min < ana_res.delta_max
    /\ ana_res.delta_max < INT64_MAX

\* The samples tv of a carousel of two CPUs and R rounds are what two TSCs
\* of the same pace give when the second is ahead of the first by d all the
\* time: the base CPU is sampled, then the other CPU, and so on, and the
\* base CPU last, so that the sample of the other CPU in round i, less d,
\* lies between the samples of the base CPU of rounds i and i + 1.  On
\* either CPU the last sample differs from the first.
SamePace(tv, R, d) ==
    /\ \A i \in 0 .. (R - 1) :
          /\ TscVal(tv, 0, i) <= TscVal(tv, 1, i) - d
          /\ TscVal(tv, 1, i) - d <= TscVal(tv, 0, i + 1)
    /\ TscVal(tv, 0, 0) # TscVal(tv, 0, R)
    /\ TscVal(tv, 1, 0) # TscVal(tv, 1, R - 1)

\* Every sample of the other CPU is within INT64_MAX of the two samples of
\* the base CPU around it.
WithinInt64(tv, R) ==
    \A i \in 0 .. (R - 1) : \A j \in {i, i + 1} :
       /\ TscVal(tv, 1, i) - TscVal(tv, 0, j) <= INT64_MAX
       /\ TscVal(tv, 0, j) - TscVal(tv, 1, i) <= INT64_MAX

\* The offsets between two uint64_t counters.
Offsets == (0 - UINT64_MAX) .. UINT64_MAX

\* wtmlib_CalcTSCDeltaRangeCPUSW has returned 0 and a range that holds d.
DeltaRangeHolds(d) ==
    /\ ana_res.ret = 0
    /\ ana_res.delta_min <= d
    /\ d <= ana_res.delta_max

\* C15 as the specification states it: for samples of two TSCs of the same
\* pace and a constant offset d, taken in carousel order over two rounds or
\* more, wtmlib_CalcTSCDeltaRangeCPUSW returns 0 and a range that holds d.
C15_AsStated ==
    (AnaDone(CalcTSCDeltaRangeCPUSWName) /\ num_rounds >= 2)
    => \A d \in Offsets :
          SamePace(tsc_vals, num_rounds, d) => DeltaRangeHolds(d)

\* C15, amended: the same, when in addition every sample of the other CPU
\* is within INT64_MAX of the two samples of the base CPU around it.
C15_SoundDeltaRange ==
    (AnaDone(CalcTSCDeltaRangeCPUSWName) /\ num_rounds >= 2)
    => \A d \in Offsets :
          (SamePace(tsc_vals, num_rounds, d) /\ WithinInt64(tsc_vals, num_rounds))
          => DeltaRangeHolds(d)

\* The function has returned a range for samples of two TSCs a non-zero
\* offset apart, the base CPU's advancing in every round.
C15_Witness ==
    /\ AnaDone(CalcTSCDeltaRangeCPUSWName)
    /\ num_rounds >= 2
    /\ WithinInt64(tsc_vals, num_rounds)
    /\ \A i \in 0 .. (num_rounds - 1) :
          TscVal(tsc_vals, 0, i) < TscVal(tsc_vals, 0, i + 1)
    /\ \E d \in Offsets \ {0} :
          SamePace(tsc_vals, num_rounds, d) /\ DeltaRangeHolds(d)

\* The TSC value of the probe with the sequence number q in the probes tp of
\* k threads, as the counter of CPU 0 would show it when the counter of
\* every other CPU is ahead of it by d.
OnBaseClock(tp, k, n, d, q) ==
    LET c == CHOOSE b \in 1 .. k : \E i \in 1 .. n : tp[b][i].seq_num = q
        j == CHOOSE i \in 1 .. n : tp[c][i].seq_num = q
    IN  IF c = 1 THEN tp[c][j].tsc_val ELSE tp[c][j].tsc_val - d

\* The probes of two CPUs are consistent: they are what two counters of the
\* same pace, the second ahead by some d, show when they are read in the
\* order of the sequence numbers; on either CPU the last value differs from
\* the first; and no two values of the two CPUs are further than INT64_MAX
\* apart.
ConsistentProbes(tp, n) ==
    /\ \E d \in Offsets :
          \A q \in 1 .. (2 * n - 1) :
             OnBaseClock(tp, 2, n, d, q - 1) <= OnBaseClock(tp, 2, n, d, q)
    /\ \A c \in 1 .. 2 : tp[c][1].tsc_val # tp[c][n].tsc_val
    /\ \A i, j \in 1 .. n :
          /\ tp[2][i].tsc_val - tp[1][j].tsc_val <= INT64_MAX
          /\ tp[1][j].tsc_val - tp[2][i].tsc_val <= INT64_MAX

\* The pairs of successive probes of the base CPU that enclose a probe of
\* the other CPU: the second probe of each.
EnclosingPairs(tp, n) ==
    {ib \in 2 .. n : tp[1][ib].seq_num # tp[1][ib - 1].seq_num + 1}

\* C16: for consistent probes of two CPUs, wtmlib_CalcTSCDeltaRangeCOP
\* returns WTMLIB_RET_POOR_STAT when fewer pairs of successive probes of the
\* base CPU than WTMLIB_TSC_DELTA_RANGE_COUNT_THRESHOLD enclose a probe of
\* the other CPU, and 0 otherwise.
C16_RangeCountGate ==
    (AnaDone(CalcTSCDeltaRangeCOPName) /\ ConsistentProbes(probes, num_probes))
    => ana_res.ret =
          IF Cardinality(EnclosingPairs(probes, num_probes))
                < WTMLIB_TSC_DELTA_RANGE_COUNT_THRESHOLD
          THEN WTMLIB_RET_POOR_STAT
          ELSE 0

\* The same of the calls that take nothing behind an array for a probe.
RangeCountGateInBounds ==
    (/\ AnaDone(CalcTSCDeltaRangeCOPName)
     /\ ConsistentProbes(probes, num_probes)
     /\ ~ana_res.oob)
    => /\ ana_res.num_ranges = Cardinality(EnclosingPairs(probes, num_probes))
       /\ ana_res.ret =
             IF ana_res.num_ranges < WTMLIB_TSC_DELTA_RANGE_COUNT_THRESHOLD
             THEN WTMLIB_RET_POOR_STAT
             ELSE 0

\* On one of the CPUs whose samples the analysis that has returned was given,
\* all collected TSC values are equal.
ConstantTSC ==
    \/ /\ ana_fn \in {CalcTSCDeltaRangeCPUSWName, EvalTSCMonotonicityCPUSWName}
       /\ \E c \in 1 .. num_avail_cpus :
             \A i, j \in 1 .. Len(tsc_vals[c]) : tsc_vals[c][i] = tsc_vals[c][j]
    \/ /\ ana_fn \in {CalcTSCDeltaRangeCOPName, IsProbeSequenceMonotonicName}
       /\ \E c \in 1 .. num_avail_cpus :
             \A i, j \in 1 .. num_probes :
                probes[c][i].tsc_val = probes[c][j].tsc_val

\* C17: if on at least one CPU all collected TSC values are equal, each of
\* the four analyses returns WTMLIB_RET_TSC_INCONSISTENCY, and does so
\* before it has intersected a range, scanned a probe or written a result.
C17_ConstantTSCIsInconsistent ==
    (ana_pc = "done" /\ ConstantTSC)
    => /\ ana_res.ret = WTMLIB_RET_TSC_INCONSISTENCY
       /\ ~ana_res.written
       /\ ana_res.num_ranges = 0
       /\ ana_res.num_loops = 0
       /\ ana_res.stop_seq = 0
       /\ ~ana_res.read_oob

\* wtmlib_IsProbeSequenceMonotonic has returned for three probes of each of
\* two CPUs, the TSC values of the second CPU all equal, those of the first
\* CPU growing.
C17_Witness ==
    /\ AnaDone(IsProbeSequenceMonotonicName)
    /\ num_avail_cpus = 2
    /\ num_probes = MaxNumProbes
    /\ ConstantTSC
    /\ probes[1][1].tsc_val < probes[1][num_probes].tsc_val
    /\ ana_res.ret = WTMLIB_RET_TSC_INCONSISTENCY

\* The TSC value of the probe with the sequence number q.
TscOfSeq(q) == OnBaseClock(probes, num_avail_cpus, num_probes, 0, q)

\* The sequence numbers at which the TSC values, walked in the order of the
\* sequence numbers, decrease.
Decreases ==
    {q \in 1 .. (num_avail_cpus * num_probes - 1) : TscOfSeq(q) < TscOfSeq(q - 1)}

\* On every CPU the last TSC value differs from the first.
PassesGuard ==
    \A c \in 1 .. num_avail_cpus :
       probes[c][1].tsc_val # probes[c][num_probes].tsc_val

\* C18: for probes that pass the guard and whose TSC values decrease at
\* exactly one sequence number i, wtmlib_IsProbeSequenceMonotonic returns 0
\* with is_monotonic = false, whatever the number of full loops, and its
\* scan stops at i.
C18_SingleDecreaseFound ==
    (AnaDone(IsProbeSequenceMonotonicName) /\ PassesGuard)
    => \A i \in Decreases :
          Decreases = {i}
          => /\ ana_res.ret = 0
             /\ ana_res.written
             /\ ~ana_res.is_monotonic
             /\ ana_res.stop_seq = i

\* The same of the calls that take nothing behind an array for a probe.
SingleDecreaseFoundInBounds ==
    (AnaDone(IsProbeSequenceMonotonicName) /\ PassesGuard /\ ~ana_res.oob)
    => \A i \in Decreases :
          /\ ana_res.ret = 0
          /\ ana_res.written
          /\ ~ana_res.is_monotonic
          /\ ana_res.stop_seq \in Decreases
          /\ \A j \in Decreases : ana_res.stop_seq <= j

\* C19: wtmlib_IsProbeSequenceMonotonic does not return 0 and is_monotonic =
\* true when it has counted fewer full loops than
\* WTMLIB_FULL_LOOP_COUNT_THRESHOLD; for probes that pass the guard and whose
\* TSC values never decrease it returns WTMLIB_RET_POOR_STAT and writes
\* nothing when it has counted fewer, and 0 and true otherwise.
C19_FullLoopGate ==
    AnaDone(IsProbeSequenceMonotonicName)
    => /\ ~(/\ ana_res.ret = 0
            /\ ana_res.is_monotonic
            /\ ana_res.num_loops < WTMLIB_FULL_LOOP_COUNT_THRESHOLD)
       /\ (PassesGuard /\ Decreases = {})
          => IF ana_res.num_loops < WTMLIB_FULL_LOOP_COUNT_THRESHOLD
             THEN ana_res.ret = WTMLIB_RET_POOR_STAT /\ ~ana_res.written
             ELSE ana_res.ret = 0 /\ ana_res.written /\ ana_res.is_monotonic

\* The first half of it, and the second half of the calls that take nothing
\* behind an array for a probe.
FullLoopGateInBounds ==
    AnaDone(IsProbeSequenceMonotonicName)
    => /\ ~(/\ ana_res.ret = 0
            /\ ana_res.is_monotonic
            /\ ana_res.num_loops < WTMLIB_FULL_LOOP_COUNT_THRESHOLD)
       /\ (PassesGuard /\ Decreases = {} /\ ~ana_res.oob)
          => IF ana_res.num_loops < WTMLIB_FULL_LOOP_COUNT_THRESHOLD
             THEN ana_res.ret = WTMLIB_RET_POOR_STAT /\ ~ana_res.written
             ELSE ana_res.ret = 0 /\ ana_res.written /\ ana_res.is_monotonic

\* The threshold is reached by a call that reads nothing behind an array.
FullLoopsReached ==
    /\ AnaDone(IsProbeSequenceMonotonicName)
    /\ ~ana_res.read_oob
    /\ ana_res.ret = 0
    /\ ana_res.is_monotonic
    /\ ana_res.num_loops >= WTMLIB_FULL_LOOP_COUNT_THRESHOLD

\* The probes of the other CPU that the probes ib - 1 and ib of the base CPU
\* enclose (as indexes from 1).
Enclosed(tp, n, ib) ==
    {i \in 1 .. n : /\ tp[1][ib - 1].seq_num < tp[2][i].seq_num
                    /\ tp[2][i].seq_num < tp[1][ib].seq_num}

\* Between the probes ib - 1 and ib of the base CPU the TSC of the other CPU
\* advanced by more than the TSC of the base CPU: (t2 - t1) < (T_hi - T_lo).
FasterBetween(tp, n, ib) ==
    LET e == Enclosed(tp, n, ib)
        lo == CHOOSE i \in e : \A j \in e : i <= j
        hi == CHOOSE i \in e : \A j \in e : j <= i
    IN  tp[1][ib].tsc_val - tp[1][ib - 1].tsc_val
           < tp[2][hi].tsc_val - tp[2][lo].tsc_val

\* C20: if between some pair of successive probes of the base CPU that
\* encloses probes of the other CPU the TSC of the other CPU advanced by more
\* than the TSC of the base CPU, wtmlib_CalcTSCDeltaRangeCOP returns
\* WTMLIB_RET_TSC_INCONSISTENCY (and no range).
C20_FasterOtherIsInconsistent ==
    AnaDone(CalcTSCDeltaRangeCOPName)
    => \A ib \in EnclosingPairs(probes, num_probes) :
          FasterBetween(probes, num_probes, ib)
          => ana_res.ret = WTMLIB_RET_TSC_INCONSISTENCY /\ ~ana_res.written

\* The function has returned for probes that pass every check but that of
\* the pace, which they fail in the second enclosing pair.
C20_Witness ==
    /\ AnaDone(CalcTSCDeltaRangeCOPName)
    /\ PassesGuard
    /\ \A c \in 1 .. 2 : \A i \in 2 .. num_probes :
          probes[c][i - 1].tsc_val <= probes[c][i].tsc_val
    /\ \A i, j \in 1 .. num_probes :
          /\ probes[2][i].tsc_val - probes[1][j].tsc_val <= INT64_MAX
          /\ probes[1][j].tsc_val - probes[2][i].tsc_val <= INT64_MAX
    /\ ana_res.num_ranges = 2
    /\ \E ib \in EnclosingPairs(probes, num_probes) :
          FasterBetween(probes, num_probes, ib)
    /\ ana_res.ret = WTMLIB_RET_TSC_INCONSISTENCY

(***************************************************************************)
(* Properties of the enclosing range (specification SpecAff)               *)
(***************************************************************************)
\* wtmlib_CalcTSCEnclosingRangeCPUSW or wtmlib_CalcTSCEnclosingRangeCOP has
\* just stored the size of the enclosing range of at least one peer CPU.
RangeSizeReported ==
    /\ apc \in {"mono_alloc", "cop_mono_alloc"}
    /\ l_bound <= u_bound

\* C21: the size that wtmlib_CalcTSCEnclosingRangeCPUSW and
\* wtmlib_CalcTSCEnclosingRangeCOP report is the largest delta_max of the
\* peer CPUs less the smallest delta_min, and it is not negative: the
\* subtraction u_bound - l_bound does not overflow.
C21_RangeSizeNonNegative ==
    RangeSizeReported
    => /\ tsc_range_length = u_bound - l_bound
       /\ tsc_range_length >= 0

(***************************************************************************)
(* Properties of the conversion of ticks to nanoseconds (specification     *)
(* SpecConv)                                                               *)
(***************************************************************************)
Converted == conv_pc = "converted"

\* The product of the remainder never exceeds UINT64_MAX.
RemainderProductFits ==
    Converted
    => BigLeq(RemainderProduct(tsc_ticks, conv_params), UMax(word_bits))

\* The product of the TSC moduli does not exceed UINT64_MAX when the counter
\* makes a tick per nanosecond or more.
ModulusProductFitsFromOneGHz ==
    Converted /\ BigLeq(NsecsPerSec(word_bits), tsc_per_sec)
    => BigLeq(ModulusProduct(tsc_ticks, conv_params), UMax(word_bits))

\* C22: with the parameters wtmlib_CalcTSCToNsecConversionParams stored for
\* a rate it accepted, neither product of WTMLIB_TSC_TO_NSEC,
\* (tsc >> tsc_remainder_length) * nsecs_per_tsc_modulus and
\* (tsc & tsc_remainder_bitmask) * mult, exceeds UINT64_MAX, whatever the
\* tick count.
C22_NoProductOverflow ==
    Converted
    => /\ BigLeq(ModulusProduct(tsc_ticks, conv_params), UMax(word_bits))
       /\ BigLeq(RemainderProduct(tsc_ticks, conv_params), UMax(word_bits))

\* wtmlib_CalcTSCToNsecConversionParams returned.
ParamsReturned == conv_pc \in {"params", "failed", "converted"}

\* M * tsc_per_sec and factor_bound, in unbounded integers
TicksPerModulus == BigMul(Big(WTMLIB_TIME_CONVERSION_MODULUS), tsc_per_sec)

FactorBound ==
    BigDiv(BigMul(BigDiv(UMax(word_bits), TicksPerModulus), tsc_per_sec),
           NsecsPerSec(word_bits))

\* k is the largest integer with 2^k <= n
LargestPowerOf2(k, n) == BigLeq(Pow2(k), n) /\ BigLess(n, Pow2(k + 1))

\* C23: wtmlib_CalcTSCToNsecConversionParams fails with
\* WTMLIB_RET_GENERIC_ERR exactly when M * tsc_per_sec does not fit in the
\* word, and otherwise stores: shift, the largest integer with
\* 2^shift <= factor_bound = (UINT64_MAX / (M * tsc_per_sec)) * tsc_per_sec /
\* 10^9; mult = 2^shift * 10^9 / tsc_per_sec; tsc_remainder_length, the
\* largest integer with 2^length <= M * tsc_per_sec; tsc_remainder_bitmask =
\* 2^length - 1; nsecs_per_tsc_modulus = (2^length * mult) >> shift.
C23_ConversionParams ==
    ParamsReturned
    => /\ conv_ret \in {0, WTMLIB_RET_GENERIC_ERR}
       /\ conv_ret = WTMLIB_RET_GENERIC_ERR
          <=> BigLess(UMax(word_bits), TicksPerModulus)
       /\ conv_ret = 0
          => /\ LargestPowerOf2(conv_params.shift, FactorBound)
             /\ conv_params.mult
                = BigDiv(BigMul(Pow2(conv_params.shift), NsecsPerSec(word_bits)),
                         tsc_per_sec)
             /\ LargestPowerOf2(conv_params.tsc_remainder_length, TicksPerModulus)
             /\ conv_params.tsc_remainder_bitmask
                = BigSub(Pow2(conv_params.tsc_remainder_length), <<1>>)
             /\ conv_params.nsecs_per_tsc_modulus
                = BigShr(BigMul(Pow2(conv_params.tsc_remainder_length),
                                conv_params.mult),
                         conv_params.shift)

\* C23 happens: parameters are stored for a counter of 3 333 333 333 ticks
\* per second on 64-bit words.
C23_Witness ==
    /\ conv_pc = "params"
    /\ word_bits = Uint64Bits
    /\ tsc_per_sec = Dec(<<3, 333333333>>)
    /\ conv_ret = 0
    /\ conv_params.shift > 0
    /\ conv_params.mult # <<>>

\* The call fails for a rate too large, on either width.
ConversionParamsRefused ==
    /\ conv_pc = "failed"
    /\ conv_ret = WTMLIB_RET_GENERIC_ERR

\* The ticks converted on 64-bit words are the worth of a whole number of
\* seconds, Period, at the rate the parameters were built for.
Period == BigDiv(tsc_ticks, tsc_per_sec)

WholePeriod ==
    /\ Converted
    /\ word_bits = Uint64Bits
    /\ tsc_per_sec # <<>>
    /\ BigMul(Period, tsc_per_sec) = tsc_ticks

BigAbsDiff(a, b) == IF BigLess(a, b) THEN BigSub(b, a) ELSE BigSub(a, b)

\* The value of WTMLIB_TSC_TO_NSEC is within 200 000 ns per hour of the
\* period of Period * 10^9 ns.
WithinFifthOfMsPerHour ==
    BigLeq(BigMul(BigAbsDiff(nsecs, BigMul(Period, NsecsPerSec(word_bits))),
                  Big(3600)),
           BigMul(Big(200000), Period))

\* C24 as stated: whatever the rate and the period, the conversion of
\* tsc_per_sec * S ticks differs from S * 10^9 ns by at most 200 000 ns per
\* hour of S.
C24_AsStated == WholePeriod => WithinFifthOfMsPerHour

\* C24: for a rate of at most 5 * 10^10 ticks per second and a period S
\* whose S * 10^9 ns fit in 64 bits, the conversion of tsc_per_sec * S ticks
\* differs from S * 10^9 ns by at most 200 000 ns per hour of S.
C24_AccuracyPerHour ==
    /\ WholePeriod
    /\ BigLeq(tsc_per_sec, Dec(<<50, 0>>))
    /\ BigLeq(BigMul(Period, NsecsPerSec(word_bits)), UMax(word_bits))
    => WithinFifthOfMsPerHour

\* C24 happens: an hour's worth of ticks of a counter of 3 333 333 333 ticks
\* per second is converted, to less than 3600 * 10^9 ns.
C24_Witness ==
    /\ WholePeriod
    /\ tsc_per_sec = Dec(<<3, 333333333>>)
    /\ Period = Big(3600)
    /\ BigLess(nsecs, Dec(<<3600, 0>>))
    /\ BigLeq(BigSub(Dec(<<3600, 0>>), nsecs), Big(200000))

(***************************************************************************)
(* Properties of the CPU carousel (specification SpecAff)                  *)
(***************************************************************************)
\* The pins and samples of a carousel over k CPU sets and R rounds that
\* meets no failure: round by round and CPU by CPU a pin to cpu_sets[i] and
\* the sample tsc_vals[i][r], then a pin to cpu_sets[0] and the sample
\* tsc_vals[0][R].
CarouselOrder(k, R) ==
    [n \in 1 .. (2 * k * R + 2) |->
        LET j == (n - 1) \div 2
            i == IF j = k * R THEN 0 ELSE j % k
            r == j \div k
        IN IF n % 2 = 1 THEN <<"pin", i>> ELSE <<"sample", i, r>>]

\* A carousel was started by the function called.
CarouselStarted == car_caller # "none"

\* The carousel returned 0 and its caller is about to analyse the samples.
CarouselReturned == apc \in {"range_delta", "mono_check"}

\* The log is the first n entries of the order, a whole number of pins with
\* their samples.
LogFollowsOrder(order) ==
    /\ Len(car_log) <= Len(order)
    /\ Len(car_log) % 2 = 0
    /\ \A n \in 1 .. Len(car_log) : car_log[n] = order[n]

\* The log is the order up to a pin that failed, and nothing after it.
LogEndsAtFailedPin(order) ==
    /\ Len(car_log) <= Len(order)
    /\ Len(car_log) % 2 = 1
    /\ \A n \in 1 .. (Len(car_log) - 1) : car_log[n] = order[n]
    /\ car_log[Len(car_log)] = <<"pin_failed", order[Len(car_log)][2]>>

CarouselPinFailedMidway ==
    /\ CarouselStarted
    /\ Len(car_log) > 1
    /\ car_log[Len(car_log)][1] = "pin_failed"
    /\ aret = WTMLIB_RET_GENERIC_ERR

(***************************************************************************)
(* Properties of the probe arrays (specification Spec)                     *)
(***************************************************************************)
\* In the array arr the sequence numbers grow with the index and the TSC
\* values do not fall.
OrderedByIndex(arr) ==
    \A i, j \in 1 .. Len(arr) :
        i < j => /\ arr[i].seq_num < arr[j].seq_num
                 /\ arr[i].tsc_val <= arr[j].tsc_val

\* C26: the shared counter changes only from s to s + 1, and in the probe
\* array of every thread seq_num grows strictly with the index and tsc_val
\* (read from a clock that never goes back) does not fall.
C26_ProbeArraysOrdered ==
    [][/\ seq_counter' \in {seq_counter, seq_counter + 1}
       /\ \A t \in ThreadIds : OrderedByIndex(tsc_probes'[t])]_vars

\* C26 happens: thread 0 recorded the first and the last of four sequence
\* numbers, the other thread the two between them.
C26_Witness ==
    /\ Len(tsc_probes[0]) = 2
    /\ tsc_probes[0][1].seq_num = 0
    /\ tsc_probes[0][2].seq_num = 3
    /\ tsc_probes[0][1].tsc_val < tsc_probes[0][2].tsc_val

(***************************************************************************)
(* Properties of the reads of the probe arrays (specification SpecProbes)  *)
(***************************************************************************)
\* C27: for probes of two or more CPUs whose sequence numbers are 0, 1, ...
\* without a gap, wtmlib_IsProbeSequenceMonotonic reads no element
\* tsc_probes[c][j] with j >= probes_num, also after the probes of one CPU
\* are used up.
C27_ScanReadsInBounds ==
    (AnaDone(IsProbeSequenceMonotonicName) /\ num_avail_cpus >= 2)
    => ~ana_res.read_oob

\* C28: for probes of two CPUs whose sequence numbers are 0, 1, ... without
\* a gap, wtmlib_CalcTSCDeltaRangeCOP reads no element tsc_probes[0][j] or
\* tsc_probes[1][j] with j >= num_probes, also when every probe of the other
\* CPU comes before every probe of the base CPU.
C28_DeltaRangeReadsInBounds ==
    AnaDone(CalcTSCDeltaRangeCOPName) => ~ana_res.read_oob

(***************************************************************************)
(* Properties of the lifetime of the objects shared with the probe threads *)
(***************************************************************************)
\* wtmlib_CollectCASOrderedTSCProbes has returned: seq_counter and
\* ready_counter, variables of its stack frame, and thread_args, freed
\* before the return, are gone; the caller frees the probe arrays.
CollectReturned == sup_pc \in {"caller", "done"}

\* The statements of wtmlib_TSCProbeThread that read or write the argument
\* block, the ready counter, the sequence counter or the probe array.
AccessPcs == {"pin", "inc", "spin", "load", "cas"}

\* The step executes such a statement of thread t (and is not the thread's
\* end by cancellation).
AccessStep(t) ==
    /\ pc[t] \in AccessPcs
    /\ pc'[t] # pc[t]
    /\ ~(cancel_pending[t] /\ pc'[t] = "done" /\ thread_ret'[t] = PTHREAD_CANCELED)

\* C29: after wtmlib_CollectCASOrderedTSCProbes has returned, no probe
\* thread reads or writes the sequence counter, the ready counter, its
\* argument block or its probe array, in every execution, also when threads
\* were detached after the run and cancel timeouts.
C29_NoAccessAfterReturn ==
    [][CollectReturned => \A t \in ThreadIds : ~AccessStep(t)]_vars

(***************************************************************************)
(* Properties of a probe thread that cannot be pinned                      *)
(***************************************************************************)
\* Thread t returned at 1337: pthread_setaffinity_np() failed.  It is the
\* only return of WTMLIB_RET_GENERIC_ERR in wtmlib_TSCProbeThread.
PinFailed(t) == pc[t] = "done" /\ thread_ret[t] = WTMLIB_RET_GENERIC_ERR

SomePinFailed == \E t \in ThreadIds : PinFailed(t)

\* Thread t ended in another way than by the failure of its pin.
EndedOtherwise(t) == pc[t] = "done" /\ ~PinFailed(t)

\* The thread that failed exits with a non-zero value and has not
\* incremented the ready counter.
FailedThreadNotReady ==
    \A t \in ThreadIds :
        PinFailed(t) => thread_ret[t] # 0 /\ ready_incs[t] = 0

\* The barrier stays closed: the ready counter is below num_threads, no
\* thread is in the probe loop and no probe is recorded.
BarrierStaysClosed ==
    /\ ready_counter < num_threads
    /\ \A t \in ThreadIds :
           /\ pc[t] \notin {"load", "tsc", "cas"}
           /\ tsc_probes[t] = <<>>

\* The other threads end by cancellation only.
OthersEndCancelled ==
    \A t \in ThreadIds : EndedOtherwise(t) => thread_ret[t] = PTHREAD_CANCELED

\* ... and the cancellation is the one sent after the run budget,
\* WTMLIB_TSC_PROBE_WAIT_TIME, was used up.
OthersEndAfterRunBudget ==
    \A t \in ThreadIds : EndedOtherwise(t) => run_budget_expired

ReturnsGenericErr == CollectReturned => ret = WTMLIB_RET_GENERIC_ERR

\* C30: if a probe thread fails to pin itself, it exits with a non-zero
\* value without incrementing the ready counter; then the ready counter
\* never reaches num_threads, no thread records a probe, the other threads
\* leave the barrier only by cancellation after the run budget expired, and
\* wtmlib_CollectCASOrderedTSCProbes returns WTMLIB_RET_GENERIC_ERR.
C30_AsStated ==
    SomePinFailed =>
        /\ FailedThreadNotReady
        /\ BarrierStaysClosed
        /\ OthersEndCancelled
        /\ OthersEndAfterRunBudget
        /\ ReturnsGenericErr

\* A pthread_create() of the run failed (or no thread was created at all):
\* the threads started are cancelled by the loop at 1704 and waited for with
\* WTMLIB_TSC_PROBE_WAIT_AFTER_CANCEL, no run budget being involved.
CreateFailed == ci < num_threads /\ sup_pc # "create"

\* C30: if a probe thread fails to pin itself, it exits with a non-zero
\* value without incrementing the ready counter; then the ready counter
\* never reaches num_threads, no thread records a probe, the other threads
\* end by cancellation only, which, when every thread was created, is sent
\* after the run budget expired, and wtmlib_CollectCASOrderedTSCProbes
\* returns WTMLIB_RET_GENERIC_ERR.
C30_PinFailure ==
    SomePinFailed =>
        /\ FailedThreadNotReady
        /\ BarrierStaysClosed
        /\ OthersEndCancelled
        /\ (~CreateFailed => OthersEndAfterRunBudget)
        /\ ReturnsGenericErr

\* Every thread was created, one failed to pin itself, another one waited at
\* the barrier until it was cancelled after the run budget, and the function
\* has returned.
C30_Witness ==
    /\ SomePinFailed
    /\ ~CreateFailed
    /\ CollectReturned
    /\ ret = WTMLIB_RET_GENERIC_ERR
    /\ \E t \in ThreadIds :
           /\ EndedOtherwise(t)
           /\ ready_incs[t] = 1
           /\ thread_ret[t] = PTHREAD_CANCELED
           /\ run_budget_expired

(***************************************************************************)
(* Liveness of the probe threads (specification SpecFair)                  *)
(***************************************************************************)
\* Every thread of the run was created and has pinned itself, none with a
\* cancel request pending.
AllPinned ==
    \A t \in Started :
        /\ pc[t] \notin {"none", "pin"}
        /\ thread_ret[t] # WTMLIB_RET_GENERIC_ERR
        /\ ~cancel_pending[t]

\* Every thread has won probes_count compare-and-swaps and returned 0, and
\* the sequence counter is num_threads * probes_count.
AllFinished ==
    /\ \A t \in Started :
           /\ pc[t] = "done"
           /\ thread_ret[t] = 0
           /\ Len(tsc_probes[t]) = probes_count
    /\ seq_counter = num_threads * probes_count

\* The supervisor has cancelled or detached a thread: the run budget was
\* used up, or pthread_tryjoin_np() failed with an error other than EBUSY.
SupervisorGaveUp ==
    \E t \in Started :
        \/ cancel_pending[t]
        \/ \E i \in 1 .. Len(hist[t]) : hist[t][i] \in {EvDetachOnJoinError, EvDetach}

\* C31: if all threads are created and pin themselves, then, every thread
\* being scheduled fairly, each thread eventually passes the barrier, wins
\* exactly probes_count compare-and-swaps and exits with 0, and the sequence
\* counter ends at num_threads * probes_count.
C31_AsStated == AllPinned ~> AllFinished

\* C31, for the runs the supervisor does not give up on: the threads finish
\* unless the supervisor cancels or detaches one of them first.
C31_ProbingIsLive == AllPinned ~> (AllFinished \/ SupervisorGaveUp)

\* The end of the run, once reached, stays.
AllFinishedIsStable == [][AllFinished => AllFinished']_vars

\* Three threads have finished, every one having lost a compare-and-swap
\* on the way is not needed: the run ended with the counter at 3.
C31_Witness ==
    /\ num_threads = 3
    /\ AllFinished
    /\ ~SupervisorGaveUp

(***************************************************************************)
(* Properties of wtmlib_WaitForTSCProbeThreads                             *)
(***************************************************************************)
\* wtmlib_WaitForTSCProbeThreads has just returned.
WaitForReturned == sup_pc = "collect_out"

\* The successful joins of a thread, and the calls of pthread_detach() for it.
Joins(t) == Count(hist[t], EvJoin)

Detaches(t) == Count(hist[t], EvDetach) + Count(hist[t], EvDetachOnJoinError)

\* C32: when wtmlib_WaitForTSCProbeThreads returns, every thread index in
\* [0, num_started) was either joined successfully exactly once or had
\* pthread_detach attempted on it exactly once, never both: none is left
\* neither joined nor detached, none is joined or detached twice.  (No
\* thread is ever joined or detached twice, at any moment.)
C32_JoinedOrDetachedOnce ==
    /\ \A t \in ThreadIds : Joins(t) + Detaches(t) <= 1
    /\ WaitForReturned =>
          \A t \in ThreadIds :
              t < num_started => Joins(t) + Detaches(t) = 1

\* Of three threads one was joined, one detached after a failed
\* pthread_tryjoin_np() and one detached when the function ended.
C32_Witness ==
    /\ WaitForReturned
    /\ num_started = 3
    /\ \E t \in ThreadIds : Joins(t) = 1
    /\ \E t \in ThreadIds : Count(hist[t], EvDetachOnJoinError) = 1
    /\ \E t \in ThreadIds : Count(hist[t], EvDetach) = 1

\* C33: when wtmlib_WaitForTSCProbeThreads is entered with is_cancelled (the
\* threads were cancelled after a failed creation), it waits at most the
\* cancel budget, WTMLIB_TSC_PROBE_WAIT_AFTER_CANCEL, and not the run budget,
\* sends no cancel request itself, detaches every thread not joined within
\* that time, and returns 0 if and only if no detach was attempted: the
\* exit values of the cancelled threads are not taken for errors.
C33_EnteredCancelled ==
    is_cancelled =>
        /\ sup_pc # "wait2"
        /\ time_to_wait = WTMLIB_TSC_PROBE_WAIT_AFTER_CANCEL
        /\ time_passed <= WTMLIB_TSC_PROBE_WAIT_AFTER_CANCEL
        /\ ~run_budget_expired
        /\ \A t \in ThreadIds :
               Count(hist[t], EvCancel) = IF t < num_started THEN 1 ELSE 0
        /\ WaitForReturned =>
               /\ \A t \in ThreadIds :
                      t < num_started =>
                          \/ Joins(t) = 1 /\ Detaches(t) = 0
                          \/ Joins(t) = 0 /\ Detaches(t) = 1
               /\ detach_attempted =
                      Cardinality({t \in ThreadIds : Detaches(t) = 1})
               /\ wait_ret = 0 <=> detach_attempted = 0

\* Two cancelled threads were joined within the cancel budget, after a
\* sleep, with the exit value PTHREAD_CANCELED, and the function returned 0.
C33_Witness ==
    /\ is_cancelled
    /\ WaitForReturned
    /\ num_started = 2
    /\ time_passed > 0
    /\ \A t \in {0, 1} : Joins(t) = 1 /\ thread_ret[t] = PTHREAD_CANCELED
    /\ thread_failed = 2
    /\ wait_ret = 0

\* A cancelled thread that did not end within the cancel budget was detached
\* and the function returned an error.
CancelledThreadDetached ==
    /\ is_cancelled
    /\ WaitForReturned
    /\ time_passed = WTMLIB_TSC_PROBE_WAIT_AFTER_CANCEL
    /\ \E t \in ThreadIds : Count(hist[t], EvDetach) = 1
    /\ wait_ret = WTMLIB_RET_GENERIC_ERR

\* The sleeps of the wait in progress: time_passed grows by one check period
\* with every sleep (1441-1442).
Sleeps == time_passed \div WTMLIB_TSC_PROBE_COMPLETION_CHECK_PERIOD

\* The first wait sleeps at most WTMLIB_TSC_PROBE_WAIT_TIME /
\* WTMLIB_TSC_PROBE_COMPLETION_CHECK_PERIOD times, whatever the number of
\* threads, and the wait after the cancel at most
\* WTMLIB_TSC_PROBE_WAIT_AFTER_CANCEL / WTMLIB_TSC_PROBE_COMPLETION_CHECK_PERIOD
\* times.
SleepsBounded ==
    /\ sup_pc = "wait1" =>
          Sleeps <= WTMLIB_TSC_PROBE_WAIT_TIME
                       \div WTMLIB_TSC_PROBE_COMPLETION_CHECK_PERIOD
    /\ sup_pc = "wait2" =>
          Sleeps <= WTMLIB_TSC_PROBE_WAIT_AFTER_CANCEL
                       \div WTMLIB_TSC_PROBE_COMPLETION_CHECK_PERIOD

\* C34: wtmlib_WaitForTSCProbeThreads always terminates, whatever the probe
\* threads do and even if none ever exits: the first wait sleeps at most
\* WTMLIB_TSC_PROBE_WAIT_TIME / WTMLIB_TSC_PROBE_COMPLETION_CHECK_PERIOD times
\* in total over all threads (one budget for all, not one per thread) and
\* the wait after the cancel at most WTMLIB_TSC_PROBE_WAIT_AFTER_CANCEL /
\* WTMLIB_TSC_PROBE_COMPLETION_CHECK_PERIOD times.
C34_WaitForTerminates == []SleepsBounded /\ <>WaitForReturned

\* Three threads were waited for and none ever exited: the function returned
\* after the sleeps of one run budget and one cancel budget.
C34_Witness ==
    /\ WaitForReturned
    /\ num_started = 3
    /\ ~is_cancelled
    /\ run_budget_expired
    /\ ind = 0
    /\ time_passed = WTMLIB_TSC_PROBE_WAIT_AFTER_CANCEL
    /\ \A t \in Started : pc[t] # "done" /\ Count(hist[t], EvDetach) = 1

(***************************************************************************)
(* Properties of the analysis of a CPU carousel (specification             *)
(* SpecCarousel)                                                           *)
(***************************************************************************)
\* The samples of a carousel of k CPUs and R rounds in the order they were
\* taken: tsc[0][0], tsc[1][0], ..., tsc[k-1][0], tsc[0][1], ...,
\* tsc[k-1][R-1], tsc[0][R].
InOrderTaken(tv, k, R) ==
    [j \in 1 .. (k * R + 1) |->
        IF j = k * R + 1 THEN TscVal(tv, 0, R)
        ELSE TscVal(tv, (j - 1) % k, (j - 1) \div k)]

NonDecreasing(seq) == \A j \in 2 .. Len(seq) : seq[j] >= seq[j - 1]

\* C35: when the consistency check of the samples succeeds,
\* wtmlib_EvalTSCMonotonicityCPUSW reports is_monotonic = true if and only if
\* every value of the samples, taken round by round and within a round CPU
\* by CPU, with the last sample of CPU 0 at the end, is not smaller than the
\* value before it.
C35_MonotonicIffOrdered ==
    (AnaDone(EvalTSCMonotonicityCPUSWName) /\ ana_res.ret = 0) =>
        /\ ana_res.written
        /\ ana_res.is_monotonic
              <=> NonDecreasing(InOrderTaken(tsc_vals, num_avail_cpus, num_rounds))

\* Two CPUs, two rounds: the only step down is the one to the last sample of
\* CPU 0, and the evaluation reports false.
C35_Witness ==
    /\ AnaDone(EvalTSCMonotonicityCPUSWName)
    /\ ana_res.ret = 0
    /\ num_avail_cpus = 2 /\ num_rounds = 2
    /\ ~ana_res.is_monotonic
    /\ LET s == InOrderTaken(tsc_vals, 2, 2)
       IN  /\ NonDecreasing(SubSeq(s, 1, 4))
           /\ s[5] < s[4]

\* Two CPUs, two rounds, samples in order: the evaluation reports true.
OrderedCarouselIsMonotonic ==
    /\ AnaDone(EvalTSCMonotonicityCPUSWName)
    /\ ana_res.ret = 0
    /\ num_avail_cpus = 2 /\ num_rounds = 2
    /\ ana_res.is_monotonic

(***************************************************************************)
(* The delta range as an intersection (specifications SpecCarousel and     *)
(* SpecProbes)                                                             *)
(***************************************************************************)
\* The per-round ranges of a carousel of two CPUs, in the order of the
\* rounds: <<other[i] - base[i+1], other[i] - base[i]>>, as integers.
RoundRanges(tv, R) ==
    [j \in 1 .. R |->
        <<TscVal(tv, 1, j - 1) - TscVal(tv, 0, j),
          TscVal(tv, 1, j - 1) - TscVal(tv, 0, j - 1)>>]

\* The indexes of the enclosing pairs in the order of the base probes.
RECURSIVE PairsInOrder(_, _, _)
PairsInOrder(tp, n, ib) ==
    IF ib > n THEN <<>>
    ELSE IF ib \in EnclosingPairs(tp, n)
         THEN <<ib>> \o PairsInOrder(tp, n, ib + 1)
         ELSE PairsInOrder(tp, n, ib + 1)

\* The range of the enclosing pair ib: <<T_hi - t2, T_lo - t1>>, as integers,
\* T_lo and T_hi the smallest and the largest enclosed TSC value.
PairRange(tp, n, ib) ==
    LET vals == {tp[2][i].tsc_val : i \in Enclosed(tp, n, ib)}
        T_lo == CHOOSE v \in vals : \A u \in vals : v <= u
        T_hi == CHOOSE v \in vals : \A u \in vals : u <= v
    IN  <<T_hi - tp[1][ib].tsc_val, T_lo - tp[1][ib - 1].tsc_val>>

\* The per-enclosing-pair ranges of the probes of two CPUs.
PairRanges(tp, n) ==
    LET p == PairsInOrder(tp, n, 2)
    IN  [j \in 1 .. Len(p) |-> PairRange(tp, n, p[j])]

\* The integers of the range r, and those of every one of the first j ranges.
RangeSet(r) == r[1] .. r[2]

Differences == (0 - UINT64_MAX) .. UINT64_MAX

RunningIntersection(ranges, j) ==
    {d \in Differences : \A i \in 1 .. j : d \in RangeSet(ranges[i])}

\* Some range does not intersect the intersection of the ranges before it.
SomeRangeApart(ranges) ==
    \E j \in 1 .. Len(ranges) :
       RangeSet(ranges[j]) \cap RunningIntersection(ranges, j - 1) = {}

\* The range delta_min .. delta_max is the intersection of the ranges.
IsIntersectionOf(res, ranges) ==
    RangeSet(<<res.delta_min, res.delta_max>>)
       = RunningIntersection(ranges, Len(ranges))

\* The ranges that the function that has returned was to intersect.
RangesOfCall ==
    IF ana_fn = CalcTSCDeltaRangeCPUSWName
    THEN RoundRanges(tsc_vals, num_rounds)
    ELSE PairRanges(probes, num_probes)

DeltaRangeDone ==
    AnaDone(CalcTSCDeltaRangeCPUSWName) \/ AnaDone(CalcTSCDeltaRangeCOPName)

\* C36: when wtmlib_CalcTSCDeltaRangeCPUSW or wtmlib_CalcTSCDeltaRangeCOP
\* returns 0, the returned range is the intersection of all per-round ranges
\* (per-enclosing-pair ranges); when some range does not intersect the
\* intersection of the ranges before it, the function returns
\* WTMLIB_RET_TSC_INCONSISTENCY.
C36_RangeIsIntersection ==
    DeltaRangeDone =>
        /\ ana_res.ret = 0 => IsIntersectionOf(ana_res, RangesOfCall)
        /\ SomeRangeApart(RangesOfCall)
              => ana_res.ret = WTMLIB_RET_TSC_INCONSISTENCY

\* The same of the calls that take nothing behind an array for a probe.
RangeIsIntersectionInBounds ==
    (DeltaRangeDone /\ ~ana_res.oob) =>
        /\ ana_res.ret = 0 => IsIntersectionOf(ana_res, RangesOfCall)
        /\ SomeRangeApart(RangesOfCall)
              => ana_res.ret = WTMLIB_RET_TSC_INCONSISTENCY

(***************************************************************************)
(* The full loops of a probe sequence (specification SpecProbes)           *)
(***************************************************************************)
\* The CPU (as an index from 0) that collected the probe with the sequence
\* number q.
CpuOfSeq(q) ==
    CHOOSE c \in 0 .. (num_avail_cpus - 1) :
       \E i \in 1 .. num_probes : probes[c + 1][i].seq_num = q

LastSeq == num_avail_cpus * num_probes - 1

\* The probes s .. e are a segment that holds a probe of every CPU and ends,
\* after its first probe, on a probe of the CPU f.
ClosesLoop(s, e, f) ==
    /\ s < e
    /\ CpuOfSeq(e) = f
    /\ {CpuOfSeq(q) : q \in s .. e} = 0 .. (num_avail_cpus - 1)

\* The full loops of the reference definition from the probe s on: the
\* shortest segment that starts at s and closes a loop, then those from its
\* last probe on.
RECURSIVE FullLoopsFrom(_)
FullLoopsFrom(s) ==
    LET ends == {e \in s .. LastSeq : ClosesLoop(s, e, CpuOfSeq(0))}
    IN  IF ends = {} THEN 0
        ELSE 1 + FullLoopsFrom(CHOOSE e \in ends : \A d \in ends : e <= d)

\* The scan of wtmlib_IsProbeSequenceMonotonic ran to the end of probes that
\* never decrease.
ScannedNonDecreasing ==
    /\ AnaDone(IsProbeSequenceMonotonicName)
    /\ PassesGuard
    /\ Decreases = {}
    /\ \/ ana_res.ret = 0 /\ ana_res.is_monotonic
       \/ ana_res.ret = WTMLIB_RET_POOR_STAT

\* C37: for a dense probe stream whose TSC values never decrease, num_loops
\* of wtmlib_IsProbeSequenceMonotonic is the number of full loops of the
\* reference definition: from the first probe of the stream, on the CPU f,
\* the shortest segment that holds a probe of every CPU and ends on a probe
\* of f, the last probe of a loop being the first of the next.
C37_LoopsAsReference ==
    ScannedNonDecreasing => ana_res.num_loops = FullLoopsFrom(0)

\* The same of the calls that take nothing behind an array for a probe.
LoopsAsReferenceInBounds ==
    (ScannedNonDecreasing /\ ~ana_res.oob)
    => ana_res.num_loops = FullLoopsFrom(0)

\* A stream of two CPUs with two full loops, scanned within the arrays.
TwoLoopsCounted ==
    /\ ScannedNonDecreasing
    /\ ~ana_res.read_oob
    /\ num_avail_cpus = 2
    /\ ana_res.num_loops = 2

\* C38: in every scan of wtmlib_IsProbeSequenceMonotonic over a dense probe
\* stream, 0 <= cpus_seen <= num_avail_cpus and every cpu_seen_num[c] is
\* num_loops or num_loops + 1 after every iteration, no WTMLIB_ASSERT of the
\* loop fails, and the function does not return the internal inconsistency
\* "couldn't find TSC probe with sequential number".
C38_ScanCountersInRange ==
    AnaDone(IsProbeSequenceMonotonicName) =>
        /\ ana_res.counters_ok
        /\ ana_res.asserts_ok
        /\ PassesGuard => ana_res.ret # WTMLIB_RET_GENERIC_ERR

\* The counters stay in their ranges and the assertions hold whatever is
\* read, and the calls that take nothing behind an array for a probe find
\* every sequence number.
ScanCountersInRangeInBounds ==
    AnaDone(IsProbeSequenceMonotonicName) =>
        /\ ana_res.counters_ok
        /\ ana_res.asserts_ok
        /\ (PassesGuard /\ ~ana_res.oob)
              => ana_res.ret # WTMLIB_RET_GENERIC_ERR

(***************************************************************************)
(* The order of the converted values (specification SpecConv)              *)
(***************************************************************************)
\* The conversion of ticks with the parameters cp on words of w bits does
\* not overflow: neither product nor their sum exceeds UINT64_MAX (the
\* product of the moduli is not larger than the sum).
ConvertsWithoutOverflow(ticks, cp, w) ==
    LET rp == RemainderProduct(ticks, cp)
    IN  /\ BigLeq(rp, UMax(w))
        /\ BigLeq(BigAdd(ModulusProduct(ticks, cp), BigShr(rp, cp.shift)),
                  UMax(w))

\* The tick counts tried that are not larger than the ticks converted and
\* convert without overflow.
TicksBelow ==
    {t \in Ticks(tsc_per_sec, word_bits) :
        /\ BigLeq(t, tsc_ticks)
        /\ ConvertsWithoutOverflow(t, conv_params, word_bits)}

\* The value the largest remainder of the TSC modulus converts to.
LargestRemainderNsecs ==
    WTMLIB_TSC_TO_NSEC(conv_params.tsc_remainder_bitmask, conv_params, word_bits)

\* C39: with the parameters of wtmlib_CalcTSCToNsecConversionParams,
\* WTMLIB_TSC_TO_NSEC does not decrease in its ticks: of two tick counts
\* t1 <= t2 whose conversions do not overflow, t1 converts to no more than
\* t2, also across a boundary of the TSC modulus, the largest remainder
\* converting to no more than nsecs_per_tsc_modulus.
C39_ConversionNonDecreasing ==
    Converted =>
       /\ BigLeq(LargestRemainderNsecs, conv_params.nsecs_per_tsc_modulus)
       /\ ConvertsWithoutOverflow(tsc_ticks, conv_params, word_bits)
             => \A t1 \in TicksBelow :
                   BigLeq(WTMLIB_TSC_TO_NSEC(t1, conv_params, word_bits), nsecs)

\* A whole TSC modulus of a counter of 3 333 333 333 ticks per second is
\* converted on 64-bit words, without overflow, to nsecs_per_tsc_modulus,
\* and the largest remainder, one tick less, converts without overflow to
\* less.
C39_Witness ==
    /\ Converted
    /\ word_bits = Uint64Bits
    /\ tsc_per_sec = Dec(<<3, 333333333>>)
    /\ tsc_ticks = BigAdd(conv_params.tsc_remainder_bitmask, <<1>>)
    /\ nsecs = conv_params.nsecs_per_tsc_modulus
    /\ ConvertsWithoutOverflow(tsc_ticks, conv_params, word_bits)
    /\ conv_params.tsc_remainder_bitmask \in TicksBelow
    /\ BigLess(LargestRemainderNsecs, nsecs)
    /\ LargestRemainderNsecs # <<>>

(***************************************************************************)
(* A carousel on one common clock (specification SpecCarousel)             *)
(***************************************************************************)
StrictlyIncreasing(seq) == \A j \in 2 .. Len(seq) : seq[j] > seq[j - 1]

\* The samples of the carousel were read from one clock that grew between
\* every two reads, by no more than INT64_MAX ticks.
CommonClock ==
    LET s == InOrderTaken(tsc_vals, num_avail_cpus, num_rounds)
    IN  /\ StrictlyIncreasing(s)
        /\ \A j \in 2 .. Len(s) : s[j] - s[j - 1] <= INT64_MAX

\* An analysis of the carousel of two CPUs or more has returned.
CarouselAnalysed ==
    /\ AnaDone(CalcTSCDeltaRangeCPUSWName) \/ AnaDone(EvalTSCMonotonicityCPUSWName)
    /\ num_avail_cpus >= 2

\* The samples are accepted: the analysis returns 0, and true where it
\* evaluates the monotonicity.
Accepted ==
    /\ ana_res.ret = 0
    /\ ana_fn = EvalTSCMonotonicityCPUSWName => ana_res.is_monotonic

\* C40: for every number of rounds from 1 on and two CPUs or more, the
\* samples of a carousel whose CPUs read one common strictly increasing
\* clock pass wtmlib_CheckCarouselValsConsistency: neither
\* wtmlib_CalcTSCDeltaRangeCPUSW nor wtmlib_EvalTSCMonotonicityCPUSW returns
\* WTMLIB_RET_TSC_INCONSISTENCY, and the latter reports true.
C40_CommonClockAccepted ==
    (CarouselAnalysed /\ CommonClock) => Accepted

\* The same from two rounds on, and what happens with one round: the check
\* of the samples refuses them.
CommonClockAcceptedFromTwoRounds ==
    (CarouselAnalysed /\ CommonClock) =>
        IF num_rounds >= 2 THEN Accepted
        ELSE /\ ana_res.ret = WTMLIB_RET_TSC_INCONSISTENCY
             /\ CheckCarouselValsConsistency(tsc_vals, num_avail_cpus, num_rounds)
                   = WTMLIB_RET_TSC_INCONSISTENCY

\* Two rounds of two CPUs on a common clock were analysed.
CommonClockOfTwoRounds ==
    CarouselAnalysed /\ CommonClock /\ num_rounds = 2
====
